---- MODULE Spec2Model ----
(***************************************************************************)
(* A model of the table-kv WAL table unit of the storage engine            *)
(* (wal/src/table_kv_impl/table_unit.rs), of the read boundaries of the    *)
(* WAL manager (wal/src/manager.rs), of the opener of the tables of a      *)
(* shard (analytic_engine/src/instance/open.rs), of the partitioned        *)
(* memory cache in front of an object store                                *)
(* (components/object_store/src/mem_cache.rs), of the internal keys of    *)
(* the memtable (analytic_engine/src/memtable/key.rs), of the contiguous   *)
(* row (common_types/src/row/contiguous.rs), of the SST reader and its     *)
(* caches (analytic_engine/src/sst/parquet/async_reader.rs), of the batch  *)
(* iterator of the WAL (wal/src/manager.rs), of the collector of the parts *)
(* of a log, the allocation of sequence numbers and the cleaning of        *)
(* deleted logs (table_unit.rs) and of the states of a table               *)
(* (table_engine/src/engine.rs).                                           *)
(*                                                                         *)
(* Conventions.  Option<T> is a sequence of length 0 (None) or 1 (Some).   *)
(* Result<T> is a record with a field ok; an error carries the name of     *)
(* the Error variant in err.  A byte string is a sequence of numbers.      *)
(* A panic is the result Err("panic").  Where the outcome of an integer    *)
(* operation depends on the build (overflow checks panic, without them     *)
(* the value wraps), the build is an input overflow_checks of the          *)
(* operation.  Sequence numbers have SEQ_BITS bits.                        *)
(***************************************************************************)
EXTENDS Integers, Sequences, FiniteSets, TLC

VARIABLES
    \* ---- the table-kv store (TableKv), which survives a restart ----
    kv,              \* the WAL shard tables of the buckets, oldest first: a
                     \* sequence of sets of [key, value] records
    meta,            \* the TableUnitEntry of the table unit in the meta table:
                     \* its start_sequence
    \* ---- TableUnit (TableUnitState and the writer lock) ----
    start_sequence,  \* TableUnitState::start_sequence
    last_sequence,   \* TableUnitState::last_sequence
    writer,          \* holder of the Mutex<TableUnitWriter>: a process, or 0
    \* ---- the callers ----
    call,            \* per process: the write_log / delete_entries_up_to call
                     \* it is in, and where in it
    event,           \* what the latest step returned to its caller: None, or
                     \* Some(the return of open / write_log / delete_entries_up_to)
    reader,          \* the latest read: its read_log request, the entries
                     \* its TableLogIterator yielded and how the iteration ended
    hist,            \* history of the run (read by the properties only)
    \* ---- LogBatchSplitEncoder, as a pure function ----
    enc_in,          \* the arguments of one LogBatchSplitEncoder::encode call
    enc_out,         \* its result: None before the call, Some(result) after it
    \* ---- ShardOpener and what it works on ----
    durable,         \* what is on disk for each table: the outcome of
                     \* manifest.recover and of the replay of its WAL
    space,           \* the Space: per table id, None or Some(table data)
    request,         \* TablesOfShardContext::table_ctxs: the table ids
    states,          \* ShardOpener::states: per table id its TableOpenStage
    opener,          \* where ShardOpener::open is, and its local variables
    open_result,     \* None, or Some(what do_open_tables_of_shard returned)
    open_hist,       \* history of the opens (read by the properties only)
    \* ---- MemCacheStore ----
    hashes,          \* DefaultHasher: the hash of each cache key
    object_store,    \* the underlying store: the content of the object
    cache,           \* MemCacheStore::cache: None, or Some(MemCache)
    getter,          \* per caller: the get_range call it is in
    cache_event,     \* what the latest step of the cache returned
    cache_hist,      \* history of the cache (read by the properties only)
    \* ---- the memtable key codec, as pure functions ----
    key_in,          \* the arguments of one call of the codec
    key_out,         \* None before the call, Some(what it returned) after it
    \* ---- the contiguous row codec, as pure functions ----
    row_in,          \* the schema, the row and the build of one write_row call
    row_out,         \* None, or Some(what write_row and the reader returned)
    \* ---- ThreadedReader ----
    tr_inner,        \* the inner Reader: the items of its stream, how many of
                     \* them were pulled, and ThreadedReader::channel_cap
    tr_task,         \* the spawned task: where it is, and the batch it holds
    tr_chan,         \* None, or Some(the mpsc channel)
    tr_caller,       \* the caller of read: its stream and what it yielded
    tr_hist,         \* history of the read (read by the properties only)
    \* ---- the SST reader and its caches ----
    sst_files,       \* per path: what the footer of the file holds
    sst_store,       \* None, or Some(the MemCache of the storage)
    sst_meta_cache,  \* Reader::meta_cache: None, or Some(its entries)
    sst_data_cache,  \* Reader::data_cache: None, or Some(its entries)
    sst_call,        \* per caller: its read in flight or its latest read
    \* ---- the batch iterator of the WAL ----
    batch_log,       \* the raw entries of the log the iterators read
    adapter,         \* per adapter: the BatchLogIteratorAdapter
    batch_call,      \* per adapter: its call of next_log_entries in flight
    batch_hist,      \* per adapter: history of its calls (read by the
                     \* properties only)
    \* ---- an IntegrateLogCollector ----
    collector,       \* log_key and log_payload
    collect_hist,    \* the latest call on it and the collector before it
    \* ---- the sequence numbers of a table unit ----
    seq_alloc,       \* last_sequence, and the latest alloc_sequence_num: the
                     \* last_sequence before it, its number and its result
    \* ---- the states of the tables ----
    table_states,    \* per table: its TableState
    transit_hist,    \* the latest try_transit: table, from, to, result
    \* ---- clean_deleted_logs on the table unit ----
    cleaner          \* its position, the start_sequence and the buckets it
                     \* read, the write batches to come, the keys it deleted

walVars == <<kv, meta, start_sequence, last_sequence, writer, call, event, reader, hist>>
encVars == <<enc_in, enc_out>>
openVars == <<durable, space, request, states, opener, open_result, open_hist>>
cacheVars == <<hashes, object_store, cache, getter, cache_event, cache_hist>>
keyVars == <<key_in, key_out>>
rowVars == <<row_in, row_out>>
threadedVars == <<tr_inner, tr_task, tr_chan, tr_caller, tr_hist>>
sstVars == <<sst_files, sst_store, sst_meta_cache, sst_data_cache, sst_call>>
batchVars == <<batch_log, adapter, batch_call, batch_hist>>
collectVars == <<collector, collect_hist>>
allocVars == <<seq_alloc>>
tstateVars == <<table_states, transit_hist>>
cleanVars == <<cleaner>>
partVars == <<collectVars, allocVars, tstateVars, cleanVars>>
unitVars == <<keyVars, rowVars, threadedVars, sstVars, batchVars, partVars>>
vars == <<walVars, encVars, openVars, cacheVars, unitVars>>
nonWalVars == <<encVars, openVars, cacheVars, unitVars>>
nonEncVars == <<walVars, openVars, cacheVars, unitVars>>
nonOpenVars == <<walVars, encVars, cacheVars, unitVars>>
nonCacheVars == <<walVars, encVars, openVars, unitVars>>
engineVars == <<walVars, encVars, openVars, cacheVars>>
nonKeyVars == <<engineVars, rowVars, threadedVars, sstVars, batchVars, partVars>>
nonRowVars == <<engineVars, keyVars, threadedVars, sstVars, batchVars, partVars>>
nonThreadedVars == <<engineVars, keyVars, rowVars, sstVars, batchVars, partVars>>
nonSstVars == <<engineVars, keyVars, rowVars, threadedVars, batchVars, partVars>>
nonBatchVars == <<engineVars, keyVars, rowVars, threadedVars, sstVars, partVars>>
firstUnitVars == <<keyVars, rowVars, threadedVars, sstVars, batchVars>>
nonCollectVars == <<engineVars, firstUnitVars, allocVars, tstateVars, cleanVars>>
nonAllocVars == <<engineVars, firstUnitVars, collectVars, tstateVars, cleanVars>>
nonTStateVars == <<engineVars, firstUnitVars, collectVars, allocVars, cleanVars>>
nonCleanVars == <<encVars, openVars, cacheVars, firstUnitVars, collectVars, allocVars, tstateVars>>

None == <<>>
Some(x) == <<x>>

Ok(v) == [ok |-> TRUE, v |-> v]
Err(e) == [ok |-> FALSE, err |-> e]

Max2(a, b) == IF a >= b THEN a ELSE b
Min2(a, b) == IF a <= b THEN a ELSE b

(***************************************************************************)
(* Log keys.  The key codec (kv_encoder) is described by the WAL backend   *)
(* interface: region_id(u64) || table_id(u64) || seq(u64), followed by a   *)
(* remaining-bytes(u32) suffix on the keys of a split payload.             *)
(***************************************************************************)
CommonLogKey_new(region_id, table_id, sequence_num) ==
    [region_id |-> region_id, table_id |-> table_id,
     sequence_num |-> sequence_num, num_remaining_bytes |-> None]

CommonLogKey_part(region_id, table_id, sequence_num, num_remaining_bytes) ==
    [region_id |-> region_id, table_id |-> table_id,
     sequence_num |-> sequence_num, num_remaining_bytes |-> num_remaining_bytes]

has_remaining(key) ==
    IF key.num_remaining_bytes = None THEN FALSE ELSE key.num_remaining_bytes[1] > 0

\* Number of bytes of the encoded key: three u64, plus a u32 on a part key.
EncodedKeyLen(key) ==
    IF key.num_remaining_bytes = None THEN 24 ELSE 28

(***************************************************************************)
(* Sequence numbers.  SequenceNumber is a u64; the model keeps SEQ_BITS    *)
(* bits of it, so that the largest sequence number is a value the model    *)
(* can reach.                                                              *)
(***************************************************************************)
SEQ_BITS == 4
SEQ_MODULUS == 2 ^ SEQ_BITS
MIN_SEQUENCE_NUMBER == 0
MAX_SEQUENCE_NUMBER == SEQ_MODULUS - 1

\* sequence + 1 on a u64: beyond the largest sequence number the addition
\* overflows, which panics with overflow checks and wraps without them.
sequence_plus_one(sequence, overflow_checks) ==
    IF sequence + 1 < SEQ_MODULUS THEN Ok(sequence + 1)
    ELSE IF overflow_checks THEN Err("panic")
    ELSE Ok((sequence + 1) % SEQ_MODULUS)

(***************************************************************************)
(* WriteBatchesBuilder.  write_batches is a sequence of write batches, a   *)
(* write batch the sequence of its inserted key-value pairs.               *)
(* index_of_curr_batch is 0-based as in the source.                        *)
(***************************************************************************)
WriteBatchesBuilder_new(num_total_kvs, size_limit_per_batch, next_seq_num) ==
    [write_batches |-> << <<>> >>,
     index_of_curr_batch |-> 0,
     size_of_curr_batch |-> 0,
     next_seq_num |-> next_seq_num,
     num_inserted_kvs |-> 0,
     size_limit_per_batch |-> size_limit_per_batch,
     num_total_kvs |-> num_total_kvs]

is_enough(b, key, val) ==
    b.size_of_curr_batch + EncodedKeyLen(key) + Len(val) < b.size_limit_per_batch

\* remaining_kvs = num_total_kvs - num_inserted_kvs on usize: with more pairs
\* inserted than counted the subtraction overflows.  It panics with overflow
\* checks; without them it wraps and W::with_capacity of the wrapped number
\* panics (capacity overflow).
remaining_kvs_overflows(b) == b.num_total_kvs < b.num_inserted_kvs

\* The builder with its next write batch, or the panic.
prepare_next_write_batch(b) ==
    IF remaining_kvs_overflows(b) THEN Err("panic")
    ELSE [b EXCEPT !.index_of_curr_batch = Len(b.write_batches),
                   !.size_of_curr_batch = 0,
                   !.write_batches = Append(@, <<>>)]

insert_entry(b, key, val) ==
    IF ~(EncodedKeyLen(key) + Len(val) < b.size_limit_per_batch)
    THEN Err("TooSmallSizeLimitPerBatch")
    ELSE IF ~is_enough(b, key, val) /\ remaining_kvs_overflows(b) THEN Err("panic")
    ELSE LET b1 == IF ~is_enough(b, key, val) THEN prepare_next_write_batch(b) ELSE b
         IN  Ok([b1 EXCEPT
                   !.write_batches[b1.index_of_curr_batch + 1] =
                       Append(@, [key |-> key, value |-> val]),
                   !.size_of_curr_batch = @ + EncodedKeyLen(key) + Len(val),
                   !.num_inserted_kvs = @ + 1])

\* next_seq_num += 1 is a u64 addition.
insert_integrate_entry(b, key, val, overflow_checks) ==
    LET r == insert_entry(b, key, val)
    IN  IF ~r.ok THEN r
        ELSE LET next == sequence_plus_one(r.v.next_seq_num, overflow_checks)
             IN  IF next.ok THEN Ok([r.v EXCEPT !.next_seq_num = next.v]) ELSE next

\* finish that leaves next_seq_num as it is.
SplittedEntriesInserter_finish_keep_seq(b, overflow_checks) == b

\* The builder after next_seq_num += 1, or the panic of the addition.
SplittedEntriesInserter_finish(b, overflow_checks) ==
    LET next == sequence_plus_one(b.next_seq_num, overflow_checks)
    IN  IF next.ok THEN [b EXCEPT !.next_seq_num = next.v] ELSE next

\* last_seq_num that returns the next sequence number.
last_seq_num_next(b, overflow_checks) ==
    IF b.num_inserted_kvs > 0 THEN Some(b.next_seq_num) ELSE None

\* then_some evaluates next_seq_num - 1 whether or not an entry is inserted:
\* at next_seq_num = 0 the subtraction panics with overflow checks and wraps
\* without them.
last_seq_num(b, overflow_checks) ==
    IF b.next_seq_num = 0 /\ overflow_checks THEN Err("panic")
    ELSE IF b.num_inserted_kvs > 0
    THEN Some((b.next_seq_num + SEQ_MODULUS - 1) % SEQ_MODULUS)
    ELSE None

(***************************************************************************)
(* LogBatchSplitEncoder.  An encoder is the record of its two limits and   *)
(* of the location; entries is the sequence of the payloads.               *)
(***************************************************************************)
LogBatchSplitEncoder(log_value_size_limit, write_batch_size_limit, region_id, table_id) ==
    [log_value_size_limit |-> log_value_size_limit,
     write_batch_size_limit |-> write_batch_size_limit,
     region_id |-> region_id, table_id |-> table_id]

\* The (offset, len) pairs of the parts of a payload of total_size bytes.
compute_sub_entry_offsets(enc, total_size) ==
    LET limit == enc.log_value_size_limit
        num_sub_entries == (total_size + limit - 1) \div limit
    IN  [k \in 1..num_sub_entries |->
            LET offset == (k - 1) * limit
            IN  <<offset,
                  IF offset + limit > total_size THEN total_size - offset ELSE limit>>]

\* index is 1-based here (the source's index + 1).
log_entry_locations(enc, entries) ==
    [index \in 1..Len(entries) |->
        LET payload_size == Len(entries[index])
        IN  IF payload_size > enc.log_value_size_limit
            THEN [kind |-> "Splitted", index |-> index,
                  sub_entry_offsets |-> compute_sub_entry_offsets(enc, payload_size)]
            ELSE [kind |-> "Integrate", index |-> index]]

\* The inner loop of encode over the parts of one split entry, from part j on.
RECURSIVE insert_sub_entries(_, _, _, _, _, _)
insert_sub_entries(enc, payload, offsets, j, next_seq_num, b) ==
    IF j > Len(offsets) THEN Ok(b)
    ELSE LET offset == offsets[j][1]
             len == offsets[j][2]
             num_remaining_bytes == Len(payload) - offset - len
             key == CommonLogKey_part(enc.region_id, enc.table_id, next_seq_num,
                                      Some(num_remaining_bytes))
             val == SubSeq(payload, offset + 1, offset + len)
             r == insert_entry(b, key, val)
         IN  IF r.ok
             THEN insert_sub_entries(enc, payload, offsets, j + 1, next_seq_num, r.v)
             ELSE r

\* The loop of encode over the locations, from location i on.
RECURSIVE encode_locations(_, _, _, _, _, _)
encode_locations(enc, entries, locations, i, b, overflow_checks) ==
    IF i > Len(locations) THEN Ok(b)
    ELSE LET location == locations[i]
             r == IF location.kind = "Integrate"
                  THEN insert_integrate_entry(
                           b,
                           CommonLogKey_new(enc.region_id, enc.table_id, b.next_seq_num),
                           entries[location.index], overflow_checks)
                  ELSE LET s == insert_sub_entries(enc, entries[location.index],
                                                   location.sub_entry_offsets, 1,
                                                   b.next_seq_num, b)
                       IN  IF ~s.ok THEN s
                           ELSE IF ~sequence_plus_one(s.v.next_seq_num, overflow_checks).ok
                           THEN Err("panic")
                           ELSE Ok(SplittedEntriesInserter_finish(s.v, overflow_checks))
         IN  IF r.ok
             THEN encode_locations(enc, entries, locations, i + 1, r.v, overflow_checks)
             ELSE r

RECURSIVE SumNumKvs(_, _, _)
SumNumKvs(enc, entries, i) ==
    IF i > Len(entries) THEN 0
    ELSE (Len(entries[i]) + enc.log_value_size_limit - 1) \div enc.log_value_size_limit
         + SumNumKvs(enc, entries, i + 1)

\* encode: Ok([write_batches, max_seq_num]) or an error.  A value limit of
\* zero divides by zero, which panics, and so do the overflows of the builder.
encode(enc, entries, start_seq, overflow_checks) ==
    IF Len(entries) = 0 THEN Err("SplitEmptyLogs")
    ELSE IF enc.log_value_size_limit = 0 THEN Err("panic")
    ELSE LET num_kvs == SumNumKvs(enc, entries, 1)
             b0 == WriteBatchesBuilder_new(num_kvs, enc.write_batch_size_limit, start_seq)
             r == encode_locations(enc, entries, log_entry_locations(enc, entries), 1, b0,
                                   overflow_checks)
         IN  IF ~r.ok THEN r
             ELSE IF r.v.next_seq_num = 0 /\ overflow_checks THEN Err("panic")
             ELSE Ok([write_batches |-> r.v.write_batches,
                      max_seq_num |-> last_seq_num(r.v, overflow_checks)[1]])

(***************************************************************************)
(* The encoder as a pure function: its inputs are drawn from bounded sets  *)
(* and one step applies it.                                                *)
(***************************************************************************)
MaxEntries == 4
MaxPayloadLen == 5
MaxValueLimit == 3

\* The payload of entry i with n bytes: bytes that differ from each other and
\* from those of every other entry.
TestPayload(i, n) == [k \in 1..n |-> 10 * i + k]

TestEntries ==
    UNION {[1..n -> 0..MaxPayloadLen] : n \in 0..MaxEntries}

\* Batch limits around the size of one and of two key-value pairs.
BatchLimitChoices == {25, 30, 33, 40, 60, 66, 1000}

EncInit ==
    /\ enc_out = None
    /\ enc_in \in [lens : TestEntries,
                   log_value_size_limit : 0..MaxValueLimit,
                   write_batch_size_limit : BatchLimitChoices,
                   start_seq : {1, MAX_SEQUENCE_NUMBER},
                   overflow_checks : BOOLEAN]

EncIdle ==
    /\ enc_out = None
    /\ enc_in = [lens |-> <<>>, log_value_size_limit |-> 0,
                 write_batch_size_limit |-> 0, start_seq |-> 0,
                 overflow_checks |-> FALSE]

EncEntries == [i \in 1..Len(enc_in.lens) |-> TestPayload(i, enc_in.lens[i])]

Encode ==
    /\ enc_out = None
    /\ enc_out' = Some(encode(LogBatchSplitEncoder(enc_in.log_value_size_limit,
                                                   enc_in.write_batch_size_limit, 0, 0),
                              EncEntries, enc_in.start_seq, enc_in.overflow_checks))
    /\ UNCHANGED <<enc_in, nonEncVars>>


\* The location (region, table) of the one table unit of the model.
Location == [region_id |-> 1, table_id |-> 1]

(***************************************************************************)
(* Order of the encoded keys in a table of the store.  Keys are compared   *)
(* as byte strings: by region, table and sequence; a key without suffix is *)
(* a prefix of the part keys of its sequence and sorts before them; the    *)
(* parts of one entry are consecutive, in the order they were written      *)
(* (decreasing remaining bytes).                                           *)
(***************************************************************************)
EncodedKeyLess(a, b) ==
    IF a.region_id # b.region_id THEN a.region_id < b.region_id
    ELSE IF a.table_id # b.table_id THEN a.table_id < b.table_id
    ELSE IF a.sequence_num # b.sequence_num THEN a.sequence_num < b.sequence_num
    ELSE IF a.num_remaining_bytes = None THEN b.num_remaining_bytes # None
    ELSE IF b.num_remaining_bytes = None THEN FALSE
    ELSE a.num_remaining_bytes[1] > b.num_remaining_bytes[1]

\* CommonLogKey's own order (the `>` of no_more_data): field by field, None
\* below Some.
CommonLogKey_gt(a, b) ==
    IF a.region_id # b.region_id THEN a.region_id > b.region_id
    ELSE IF a.table_id # b.table_id THEN a.table_id > b.table_id
    ELSE IF a.sequence_num # b.sequence_num THEN a.sequence_num > b.sequence_num
    ELSE IF a.num_remaining_bytes = None THEN FALSE
    ELSE IF b.num_remaining_bytes = None THEN TRUE
    ELSE a.num_remaining_bytes[1] > b.num_remaining_bytes[1]

(***************************************************************************)
(* TableKv::scan over one table with inclusive boundaries.  A ScanIter     *)
(* holds the rows of the range as they were when scan was called and the   *)
(* key it stands on; an iterator that is not valid is None.                *)
(***************************************************************************)
KeysInRange(table, start, end) ==
    {r.key : r \in {x \in table : /\ ~EncodedKeyLess(x.key, start)
                                  /\ ~EncodedKeyLess(end, x.key)}}

FirstKey(keys) ==
    IF keys = {} THEN None
    ELSE Some(CHOOSE k \in keys : \A o \in keys : ~EncodedKeyLess(o, k))

LastKey(keys) ==
    IF keys = {} THEN None
    ELSE Some(CHOOSE k \in keys : \A o \in keys : ~EncodedKeyLess(k, o))

RowsInRange(table, start, end) ==
    {x \in table : /\ ~EncodedKeyLess(x.key, start)
                   /\ ~EncodedKeyLess(end, x.key)}

scan(table, start, end, reverse) ==
    LET first == IF reverse THEN LastKey(KeysInRange(table, start, end))
                 ELSE FirstKey(KeysInRange(table, start, end))
    IN  IF first = None THEN None
        ELSE Some([pos |-> first[1], rows |-> RowsInRange(table, start, end)])

\* ScanIter::next of a forward scan.
ScanIter_next(iter) ==
    LET nxt == FirstKey({r.key : r \in {x \in iter.rows : EncodedKeyLess(iter.pos, x.key)}})
    IN  IF nxt = None THEN None ELSE Some([iter EXCEPT !.pos = nxt[1]])

ScanIter_key(iter) == iter.pos

ScanIter_value(iter) ==
    (CHOOSE r \in iter.rows : r.key = iter.pos).value

(***************************************************************************)
(* TableUnit::open: the start sequence comes from the meta table, the last *)
(* sequence from the newest bucket that holds a log of the table.          *)
(***************************************************************************)
load_last_sequence_from_table(table, region_id, table_id) ==
    LET iter == scan(table,
                     CommonLogKey_new(region_id, table_id, MIN_SEQUENCE_NUMBER),
                     CommonLogKey_new(region_id, table_id, MAX_SEQUENCE_NUMBER),
                     TRUE)
    IN  IF iter = None THEN None ELSE Some(ScanIter_key(iter[1]).sequence_num)

\* The loop `for bucket in buckets.iter().rev()`, from bucket i downwards:
\* Ok(the last sequence), or the panic of sequence + 1.
RECURSIVE load_last_sequence_from(_, _, _, _, _, _)
load_last_sequence_from(tables, i, region_id, table_id, start_seq, overflow_checks) ==
    LET fallback == Ok(IF start_seq > 0 THEN start_seq - 1 ELSE start_seq)
    IN  IF i = 0 THEN fallback
        ELSE LET found == load_last_sequence_from_table(tables[i], region_id, table_id)
             IN  IF found = None
                 THEN load_last_sequence_from(tables, i - 1, region_id, table_id,
                                              start_seq, overflow_checks)
                 ELSE LET actual_next_sequence ==
                              sequence_plus_one(found[1], overflow_checks)
                      IN  IF ~actual_next_sequence.ok THEN actual_next_sequence
                          ELSE IF actual_next_sequence.v < start_seq THEN fallback
                          ELSE Ok(found[1])

\* load_last_sequence that never looks at the stored logs.
load_last_sequence_fallback_only(tables, region_id, table_id, start_seq, overflow_checks) ==
    Ok(IF start_seq > 0 THEN start_seq - 1 ELSE start_seq)

load_last_sequence(tables, region_id, table_id, start_seq, overflow_checks) ==
    load_last_sequence_from(tables, Len(tables), region_id, table_id, start_seq,
                            overflow_checks)

(***************************************************************************)
(* TableUnitWriter::alloc_sequence_num: the check against the largest      *)
(* sequence number, then fetch_add, which wraps.                           *)
(***************************************************************************)
\* alloc_sequence_num without the fetch_add.
alloc_sequence_num_no_advance(last, number) ==
    IF ~(last < MAX_SEQUENCE_NUMBER) THEN Err("SequenceOverflow")
    ELSE Ok([next_seq |-> last + 1, last_sequence |-> last])

alloc_sequence_num(last, number) ==
    IF ~(last < MAX_SEQUENCE_NUMBER) THEN Err("SequenceOverflow")
    ELSE Ok([next_seq |-> last + 1,
             last_sequence |-> (last + number) % SEQ_MODULUS])

(***************************************************************************)
(* ReadBoundary (wal/src/manager.rs).                                      *)
(***************************************************************************)
ReadBoundary_Max == [kind |-> "Max", n |-> 0]
ReadBoundary_Min == [kind |-> "Min", n |-> 0]
ReadBoundary_Included(n) == [kind |-> "Included", n |-> n]
ReadBoundary_Excluded(n) == [kind |-> "Excluded", n |-> n]

\* as_start_sequence_number that keeps the excluded sequence.
as_start_sequence_number_excluded_kept(b) ==
    CASE b.kind = "Max" -> Some(MAX_SEQUENCE_NUMBER)
      [] b.kind = "Min" -> Some(MIN_SEQUENCE_NUMBER)
      [] b.kind = "Included" -> Some(b.n)
      [] b.kind = "Excluded" -> IF b.n = MAX_SEQUENCE_NUMBER THEN None ELSE Some(b.n)

as_start_sequence_number(b) ==
    CASE b.kind = "Max" -> Some(MAX_SEQUENCE_NUMBER)
      [] b.kind = "Min" -> Some(MIN_SEQUENCE_NUMBER)
      [] b.kind = "Included" -> Some(b.n)
      [] b.kind = "Excluded" -> IF b.n = MAX_SEQUENCE_NUMBER THEN None ELSE Some(b.n + 1)

as_end_sequence_number(b) ==
    CASE b.kind = "Max" -> Some(MAX_SEQUENCE_NUMBER)
      [] b.kind = "Min" -> Some(MIN_SEQUENCE_NUMBER)
      [] b.kind = "Included" -> Some(b.n)
      [] b.kind = "Excluded" -> IF b.n = MIN_SEQUENCE_NUMBER THEN None ELSE Some(b.n - 1)

(***************************************************************************)
(* IntegrateLogCollector.                                                  *)
(***************************************************************************)
IntegrateLogCollector_default == [log_key |-> None, log_payload |-> <<>>]

is_integrate(c) ==
    IF c.log_key = None THEN FALSE ELSE ~has_remaining(c.log_key[1])

init_log(c, new_log_key, new_log_payload) ==
    [log_key |-> Some(new_log_key), log_payload |-> new_log_payload]

is_part_log(c, new_log_key) ==
    LET curr_log_key == c.log_key[1]
    IN  /\ curr_log_key.region_id = new_log_key.region_id
        /\ curr_log_key.table_id = new_log_key.table_id
        /\ curr_log_key.sequence_num = new_log_key.sequence_num

merge_log(c, new_log_key, new_log_payload) ==
    [log_key |-> Some(new_log_key), log_payload |-> c.log_payload \o new_log_payload]

\* IntegrateLogCollector::collect that starts anew on every part, also when
\* the collected log is integrate
collect_restarts(c, new_log_key, new_log_payload) ==
    IF c.log_key = None THEN init_log(c, new_log_key, new_log_payload)
    ELSE IF is_part_log(c, new_log_key) /\ ~is_integrate(c)
    THEN merge_log(c, new_log_key, new_log_payload)
    ELSE init_log(c, new_log_key, new_log_payload)

collect(c, new_log_key, new_log_payload) ==
    IF c.log_key = None THEN init_log(c, new_log_key, new_log_payload)
    ELSE IF is_integrate(c) THEN c
    ELSE IF is_part_log(c, new_log_key) THEN merge_log(c, new_log_key, new_log_payload)
    ELSE init_log(c, new_log_key, new_log_payload)

(***************************************************************************)
(* TableLogIterator.  buckets is the number of buckets it was given (the   *)
(* buckets 1..buckets of the store, ordered by time); current_bucket_index *)
(* is 0-based as in the source; current_iter is the ScanIter.              *)
(***************************************************************************)
TableLogIterator_new_empty ==
    [buckets |-> 0,
     max_log_key |-> CommonLogKey_new(0, 0, 0),
     current_log_key |-> CommonLogKey_new(0, 0, 0),
     current_bucket_index |-> 0,
     current_iter |-> None]

TableLogIterator_new(buckets, min_log_key, max_log_key) ==
    [buckets |-> buckets,
     max_log_key |-> max_log_key,
     current_log_key |-> min_log_key,
     current_bucket_index |-> 0,
     current_iter |-> None]

no_more_data(it) ==
    \/ it.current_bucket_index >= it.buckets
    \/ CommonLogKey_gt(it.current_log_key, it.max_log_key)

\* Scans the buckets from the current one on for a valid iterator.
RECURSIVE scan_buckets(_, _)
scan_buckets(it, tables) ==
    IF ~(it.current_bucket_index < it.buckets) THEN [found |-> FALSE, it |-> it]
    ELSE LET iter == scan(tables[it.current_bucket_index + 1],
                          it.current_log_key, it.max_log_key, FALSE)
         IN  IF iter # None
             THEN [found |-> TRUE, it |-> [it EXCEPT !.current_iter = iter]]
             ELSE scan_buckets([it EXCEPT !.current_bucket_index = @ + 1], tables)

step_current_iter(it) ==
    IF it.current_iter = None THEN it
    ELSE LET nxt == ScanIter_next(it.current_iter[1])
         IN  IF nxt = None
             THEN [it EXCEPT !.current_iter = None, !.current_bucket_index = @ + 1]
             ELSE [it EXCEPT !.current_iter = nxt]

\* Returns has_more, the iterator and the collector after the call.  The
\* scan iterator is read, never stepped, here.
collect_log_from_one_kv(it, c, tables) ==
    IF no_more_data(it) THEN [has_more |-> FALSE, it |-> it, c |-> c]
    ELSE LET s == IF it.current_iter = None
                  THEN scan_buckets(it, tables)
                  ELSE [found |-> TRUE, it |-> it]
         IN  IF ~s.found THEN [has_more |-> FALSE, it |-> s.it, c |-> c]
             ELSE LET key == ScanIter_key(s.it.current_iter[1])
                      payload == ScanIter_value(s.it.current_iter[1])
                  IN  [has_more |-> TRUE,
                       it |-> [s.it EXCEPT !.current_log_key = key],
                       c |-> collect(c, key, payload)]

(***************************************************************************)
(* next_log_entry.  Its loop calls collect_log_from_one_kv until the       *)
(* collector holds an integrate log or there is no more data.  A round     *)
(* that leaves the iterator where it was and the collected key as it was,  *)
(* with the log not integrate, is followed by the very same round (only    *)
(* the collected payload grows): from there the loop never ends, and the   *)
(* result is "hang".                                                       *)
(***************************************************************************)
RECURSIVE next_log_entry_loop(_, _, _)
next_log_entry_loop(it, c, tables) ==
    CHOOSE out \in
      { IF is_integrate(r.c)
        THEN CHOOSE some \in
               { [result |-> "some", it |-> it1,
                  entry |-> [table_id |-> it1.current_log_key.table_id,
                             sequence |-> it1.current_log_key.sequence_num,
                             payload |-> r.c.log_payload]]
                 : it1 \in {step_current_iter(r.it)} } : TRUE
        ELSE IF ~r.has_more THEN [result |-> "none", it |-> r.it]
        ELSE IF r.it = it /\ r.c.log_key = c.log_key
        THEN [result |-> "hang", it |-> r.it]
        ELSE next_log_entry_loop(r.it, r.c, tables)
        : r \in {collect_log_from_one_kv(it, c, tables)} } : TRUE

next_log_entry(it, tables) ==
    next_log_entry_loop(it, IntegrateLogCollector_default, tables)

(***************************************************************************)
(* The state machine of one table unit and of its callers.                 *)
(***************************************************************************)
\* The limits TableUnitWriter::write_log gives its LogBatchSplitEncoder.
LOG_VALUE_SIZE_LIMIT == 1000
WRITE_BATCH_SIZE_LIMIT == 1000000

\* Bounds of the model.
MaxSeq == 2          \* sequences write_log allocates beyond the
                     \* last_sequence of the initial state
MaxBatchLen == 2     \* entries of one LogWriteBatch
MaxBuckets == 2      \* buckets of the namespace

Procs == {1, 2}

\* Payload sizes of the written entries: one that fits a value, one that is split.
PayloadSizes == {1, LOG_VALUE_SIZE_LIMIT + 1}

\* The payload of the i-th entry of a batch, n bytes long.
WalPayload(i, n) == [k \in 1..n |-> i]

EntriesOf(lens) == [i \in 1..Len(lens) |-> WalPayload(i, lens[i])]

BatchChoices == UNION {[1..n -> PayloadSizes] : n \in 0..MaxBatchLen}

WalEncoder ==
    LogBatchSplitEncoder(LOG_VALUE_SIZE_LIMIT, WRITE_BATCH_SIZE_LIMIT,
                         Location.region_id, Location.table_id)

IdleCall ==
    [pc |-> "idle", op |-> "none", lens |-> <<>>, sequence_num |-> 0, bucket |-> 0,
     next_seq |-> 0, idx |-> 0, before |-> 0, new_start |-> 0]

\* The call of a caller while there is no table unit: before the first
\* open_or_create, and after an open that returned an error or Ok(None).
DownCall == [IdleCall EXCEPT !.pc = "down"]

\* What a call returns: the operation, Ok (with seq) or Err (with err), and
\* what the call saw: its arguments, its first sequence, last_sequence when
\* it took the lock (before) and when it returned (after), and the largest
\* sequence a write_log had returned before this call returned (floor).
\* The status of an open that found no table unit entry, Ok(None), is
\* "none".
Return(p, status, err, seq, after, c) ==
    [p |-> p, op |-> c.op, status |-> status, err |-> err, seq |-> seq,
     lens |-> c.lens, sequence_num |-> c.sequence_num, first |-> c.next_seq,
     before |-> c.before, after |-> after, floor |-> hist.max_ret]

\* The last read: its bounds, whether it came right after TableUnit::open,
\* the TableLogIterator read_log returned, the entries it has yielded, and
\* where the iteration is: "bounds" in read_log between its load of
\* start_sequence and its load of last_sequence (buckets: the buckets it
\* was given; table_unit_start_sequence: what it loaded), "reading" between
\* two calls of next_log_entry, "done" after the call that returned None,
\* "hang" in a call that never returns.  quiet: no call on the table unit
\* made a step since read_log was called; acked and marked: the entries
\* write_log had returned and the sequences marked deleted when read_log
\* was called.
IdleReader ==
    [pc |-> "idle", start |-> ReadBoundary_Min, end |-> ReadBoundary_Max,
     buckets |-> 0, table_unit_start_sequence |-> 0,
     it |-> TableLogIterator_new_empty, out |-> <<>>, replay |-> FALSE,
     quiet |-> TRUE, acked |-> {}, marked |-> {}]

\* The read after a step of another call: a read_log under way and an
\* iterator in use stay as they are.
ReaderAside ==
    IF reader.pc \in {"bounds", "reading"} THEN [reader EXCEPT !.quiet = FALSE]
    ELSE IdleReader

AllRecords(tables) == UNION {tables[b] : b \in 1..Len(tables)}
StoredSeqs(tables) == {r.key.sequence_num : r \in AllRecords(tables)}

WalInit ==
    /\ kv = << {} >>
    /\ meta = Some(0)
    /\ start_sequence = 0
    /\ last_sequence = 0
    /\ writer = 0
    /\ call = [p \in Procs |-> IdleCall]
    /\ event = None
    /\ reader = IdleReader
    /\ hist = [max_ret |-> 0, high |-> 0, overlap |-> FALSE, overwrote |-> FALSE,
               acked |-> {}, marked |-> {}, origin |-> 0]

\* The table unit as open builds it on a store whose logs, written up to
\* MAX_SEQUENCE_NUMBER - 2, are all deleted and cleaned: the persisted
\* start_sequence is MAX_SEQUENCE_NUMBER - 1 and no log is stored.
TopStartSequence == MAX_SEQUENCE_NUMBER - 1

TopInit ==
    /\ kv = << {} >>
    /\ meta = Some(TopStartSequence)
    /\ start_sequence = TopStartSequence
    /\ last_sequence = TopStartSequence - 1
    /\ writer = 0
    /\ call = [p \in Procs |-> IdleCall]
    /\ event = None
    /\ reader = IdleReader
    /\ hist = [max_ret |-> TopStartSequence - 1, high |-> 0, overlap |-> FALSE,
               overwrote |-> FALSE, acked |-> {}, marked |-> {},
               origin |-> TopStartSequence - 1]

\* The store before the table unit was opened for the first time: the meta
\* table has no entry of it and there is no table unit.
WalColdInit ==
    /\ kv = << {} >>
    /\ meta = None
    /\ start_sequence = 0
    /\ last_sequence = 0
    /\ writer = 0
    /\ call = [p \in Procs |-> DownCall]
    /\ event = None
    /\ reader = IdleReader
    /\ hist = [max_ret |-> 0, high |-> 0, overlap |-> FALSE, overwrote |-> FALSE,
               acked |-> {}, marked |-> {}, origin |-> 0]

\* How far last_sequence is beyond the last_sequence of the initial state.
Allocated == (last_sequence + SEQ_MODULUS - hist.origin) % SEQ_MODULUS

\* The batches a write_log is called with: those of `batches` that leave
\* last_sequence at most `max` beyond the last_sequence of the initial
\* state, and all of them when last_sequence is the largest sequence number
\* (alloc_sequence_num returns SequenceOverflow then).
Within(batches, max) ==
    {lens \in batches : \/ Allocated + Len(lens) <= max
                        \/ ~(last_sequence < MAX_SEQUENCE_NUMBER)}

\* ---- TableUnit::write_log ----
\* The caller names the newest bucket and waits for the writer lock.
CallWriteLog(p) ==
    /\ call[p].pc = "idle"
    /\ call' = [call EXCEPT ![p] = [IdleCall EXCEPT !.pc = "lock", !.op = "write_log",
                                                    !.bucket = Len(kv)]]
    /\ event' = None
    /\ reader' = ReaderAside
    /\ UNCHANGED <<kv, meta, start_sequence, last_sequence, writer, hist, nonWalVars>>

\* With the lock: alloc_sequence_num, then encode; an error of either returns
\* at once, dropping the lock, and so does a panic of encode (last_sequence
\* stays advanced).
WriteLogLocked(p, lens, overflow_checks) ==
    /\ call[p].pc = "lock" /\ call[p].op = "write_log"
    /\ writer = 0
    /\ LET c == [call[p] EXCEPT !.lens = lens, !.before = last_sequence]
           n == Len(lens)
           a == alloc_sequence_num(last_sequence, n)
           e == encode(WalEncoder, EntriesOf(lens), a.v.next_seq, overflow_checks)
       IN  IF ~a.ok
           THEN /\ call' = [call EXCEPT ![p] = IdleCall]
                /\ event' = Some(Return(p, "err", a.err, 0, last_sequence, c))
                /\ UNCHANGED <<last_sequence, writer, hist>>
           ELSE /\ last_sequence' = a.v.last_sequence
                /\ hist' = [hist EXCEPT
                              !.high = Max2(@, (a.v.next_seq + n - 1) % SEQ_MODULUS),
                              !.overlap = @ \/ (n >= 1 /\ a.v.next_seq <= hist.high)]
                /\ IF ~e.ok
                   THEN /\ call' = [call EXCEPT ![p] = IdleCall]
                        /\ event' = Some(Return(p, IF e.err = "panic" THEN "panic" ELSE "err",
                                                IF e.err = "panic" THEN "" ELSE e.err, 0,
                                                a.v.last_sequence,
                                                [c EXCEPT !.next_seq = a.v.next_seq]))
                        /\ UNCHANGED writer
                   ELSE /\ call' = [call EXCEPT ![p] = [c EXCEPT !.pc = "write",
                                                                 !.next_seq = a.v.next_seq,
                                                                 !.idx = 1]]
                        /\ event' = None
                        /\ writer' = p
    /\ reader' = ReaderAside
    /\ UNCHANGED <<kv, meta, start_sequence, nonWalVars>>

BatchRecords(wb) == {wb[i] : i \in 1..Len(wb)}

\* table_kv.write of a write batch of inserts: a key that is stored already
\* gets the new value.
table_kv_write(table, wb) ==
    {o \in table : \A r \in wb : r.key # o.key} \cup wb

\* What the blocking task of write_log and of delete_entries_up_to comes to:
\* the store applies the write, the store returns an error, or the runtime
\* does not run the task.
WriteOutcomes == {"Ok", "WriteLog", "RuntimeExec"}
PersistOutcomes == {"Ok", "WriteValue", "RuntimeExec"}

\* One table_kv.write of the loop over the write batches in the blocking
\* task.  The store applies the whole batch, and write_log, which awaits the
\* task, has not returned: the lock is held.  Or the write fails, the task
\* ends and write_log returns the error; or the task never ran.  The write
\* batches are those of the encode that succeeded in WriteLogLocked, which
\* another encode without overflow checks returns.
WriteLogKvWrite(p, outcome) ==
    /\ call[p].pc = "write"
    /\ outcome = "RuntimeExec" => call[p].idx = 1
    /\ LET c == call[p]
           e == encode(WalEncoder, EntriesOf(c.lens), c.next_seq, FALSE)
           wb == BatchRecords(e.v.write_batches[c.idx])
           clash == \E r \in wb : \E o \in AllRecords(kv) : o.key = r.key
       IN  IF outcome # "Ok"
           THEN /\ call' = [call EXCEPT ![p] = IdleCall]
                /\ event' = Some(Return(p, "err", outcome, 0, last_sequence, c))
                /\ writer' = 0
                /\ UNCHANGED <<kv, hist>>
           ELSE /\ kv' = [kv EXCEPT ![c.bucket] = table_kv_write(@, wb)]
                /\ call' = [call EXCEPT ![p] =
                              IF c.idx < Len(e.v.write_batches)
                              THEN [c EXCEPT !.idx = @ + 1]
                              ELSE [c EXCEPT !.pc = "written"]]
                /\ event' = None
                /\ hist' = [hist EXCEPT !.overwrote = @ \/ clash]
                /\ UNCHANGED writer
    /\ reader' = ReaderAside
    /\ UNCHANGED <<meta, start_sequence, last_sequence, nonWalVars>>

\* The blocking task has ended with Ok: write_log returns max_seq_num and
\* the lock is dropped.
WriteLogReturn(p) ==
    /\ call[p].pc = "written"
    /\ LET c == call[p]
           e == encode(WalEncoder, EntriesOf(c.lens), c.next_seq, FALSE)
       IN  /\ call' = [call EXCEPT ![p] = IdleCall]
           /\ event' = Some(Return(p, "ok", "", e.v.max_seq_num, last_sequence, c))
           /\ hist' = [hist EXCEPT
                         !.max_ret = Max2(@, e.v.max_seq_num),
                         !.acked = @ \cup
                             {[seq |-> (c.next_seq + i - 1) % SEQ_MODULUS, i |-> i,
                               len |-> c.lens[i]] : i \in 1..Len(c.lens)}]
    /\ writer' = 0
    /\ reader' = ReaderAside
    /\ UNCHANGED <<kv, meta, start_sequence, last_sequence, nonWalVars>>

\* ---- TableUnit::delete_entries_up_to ----
CallDeleteEntriesUpTo(p) ==
    /\ call[p].pc = "idle"
    /\ call' = [call EXCEPT ![p] = [IdleCall EXCEPT !.pc = "lock",
                                                    !.op = "delete_entries_up_to"]]
    /\ event' = None
    /\ reader' = ReaderAside
    /\ UNCHANGED <<kv, meta, start_sequence, last_sequence, writer, hist, nonWalVars>>

\* With the lock: clamp the sequence and compute the new table unit entry.
\* sequence_num + 1 is a u64 addition: at the largest sequence number it
\* panics with overflow checks (the call ends, the lock is dropped) and wraps
\* to 0 without them.
DeleteLocked(p, requested, overflow_checks) ==
    /\ call[p].pc = "lock" /\ call[p].op = "delete_entries_up_to"
    /\ writer = 0
    /\ LET sequence_num == IF requested > last_sequence
                           THEN last_sequence ELSE requested
           entry_start == IF start_sequence <= sequence_num
                          THEN sequence_plus_one(sequence_num, overflow_checks)
                          ELSE Ok(start_sequence)
           c == [call[p] EXCEPT !.sequence_num = requested, !.before = last_sequence]
       IN  IF entry_start.ok
           THEN /\ call' = [call EXCEPT ![p] = [c EXCEPT !.pc = "persist",
                                                         !.new_start = entry_start.v]]
                /\ writer' = p
                /\ event' = None
           ELSE /\ call' = [call EXCEPT ![p] = IdleCall]
                /\ event' = Some(Return(p, "panic", "", 0, last_sequence, c))
                /\ UNCHANGED writer
    /\ reader' = ReaderAside
    /\ UNCHANGED <<kv, meta, start_sequence, last_sequence, hist, nonWalVars>>

\* update_table_unit_entry in the blocking task.  The store holds the new
\* entry, and delete_entries_up_to, which awaits the task, has neither set
\* start_sequence nor returned: the lock is held.  Or the write fails and the
\* call returns the error; or the task never ran.
DeletePersist(p, outcome) ==
    /\ call[p].pc = "persist"
    /\ LET c == call[p]
       IN  IF outcome = "Ok"
           THEN /\ meta' = Some(c.new_start)
                /\ call' = [call EXCEPT ![p].pc = "persisted"]
                /\ event' = None
                /\ UNCHANGED writer
           ELSE /\ call' = [call EXCEPT ![p] = IdleCall]
                /\ event' = Some(Return(p, "err", outcome, 0, last_sequence, c))
                /\ writer' = 0
                /\ UNCHANGED meta
    /\ reader' = ReaderAside
    /\ UNCHANGED <<kv, start_sequence, last_sequence, hist, nonWalVars>>

\* The blocking task has ended with Ok: set_start_sequence, then
\* delete_entries_up_to returns and the lock is dropped.
DeleteReturn(p) ==
    /\ call[p].pc = "persisted"
    /\ LET c == call[p]
       IN  /\ start_sequence' = c.new_start
           /\ event' = Some(Return(p, "ok", "", 0, last_sequence, c))
           /\ hist' = [hist EXCEPT !.marked =
                         @ \cup {s \in StoredSeqs(kv) : s <= c.sequence_num}]
    /\ call' = [call EXCEPT ![p] = IdleCall]
    /\ writer' = 0
    /\ reader' = ReaderAside
    /\ UNCHANGED <<kv, meta, last_sequence, nonWalVars>>

\* ---- TableUnit::read_log and the iterator it returns ----
\* read_log that starts at the requested sequence, whatever start_sequence is.
read_log_from_requested(tables, start_seq, last_seq, start, end) ==
    LET s == as_start_sequence_number(start)
        e == as_end_sequence_number(end)
    IN  IF s = None THEN TableLogIterator_new_empty
        ELSE IF e = None THEN TableLogIterator_new_empty
        ELSE TableLogIterator_new(
               Len(tables),
               CommonLogKey_new(Location.region_id, Location.table_id, s[1]),
               CommonLogKey_new(Location.region_id, Location.table_id,
                                Min2(last_seq, e[1])))

read_log(tables, start_seq, last_seq, start, end) ==
    LET s == as_start_sequence_number(start)
        e == as_end_sequence_number(end)
    IN  IF s = None THEN TableLogIterator_new_empty
        ELSE IF e = None THEN TableLogIterator_new_empty
        ELSE TableLogIterator_new(
               Len(tables),
               CommonLogKey_new(Location.region_id, Location.table_id,
                                Max2(start_seq, s[1])),
               CommonLogKey_new(Location.region_id, Location.table_id,
                                Min2(last_seq, e[1])))

\* read_log, up to its load of start_sequence: the start boundary is
\* converted and start_sequence is loaded.  read_log takes no lock: the
\* calls of the writer go on before it loads last_sequence.  A start or end
\* boundary that stands for no sequence ends read_log here with the empty
\* iterator.
ReadLog(start, end) ==
    /\ reader.pc = "idle"
    /\ \E c \in {[IdleReader EXCEPT
                     !.start = start, !.end = end,
                     !.replay = (event # None /\ event[1].op = "open"
                                 /\ event[1].status = "ok"),
                     !.acked = hist.acked, !.marked = hist.marked]} :
         reader' = IF \/ as_start_sequence_number(start) = None
                      \/ as_end_sequence_number(end) = None
                   THEN [c EXCEPT !.pc = "reading"]
                   ELSE [c EXCEPT !.pc = "bounds", !.buckets = Len(kv),
                                  !.table_unit_start_sequence = start_sequence]
    /\ event' = None
    /\ UNCHANGED <<kv, meta, start_sequence, last_sequence, writer, call, hist, nonWalVars>>

\* read_log, from its load of last_sequence on: the bounds are the larger
\* of the loaded start_sequence and the requested start, and the smaller of
\* last_sequence, as it is now, and the requested end; the TableLogIterator
\* is built over the buckets read_log was given; nothing is read yet.
ReadLogBounds ==
    /\ reader.pc = "bounds"
    /\ reader' = [reader EXCEPT
                    !.pc = "reading",
                    !.it = read_log(SubSeq(kv, 1, reader.buckets),
                                    reader.table_unit_start_sequence, last_sequence,
                                    reader.start, reader.end),
                    !.buckets = 0,
                    !.table_unit_start_sequence = 0]
    /\ event' = None
    /\ UNCHANGED <<kv, meta, start_sequence, last_sequence, writer, call, hist, nonWalVars>>

\* One call of TableLogIterator::next_log_entry on the iterator of the read:
\* it scans the store as it is now, and returns an entry or None, or never
\* returns.
NextLogEntry ==
    /\ reader.pc = "reading"
    /\ \E r \in {next_log_entry(reader.it, kv)} :
         reader' =
           CASE r.result = "some" ->
                  [reader EXCEPT !.it = r.it,
                                 !.out = Append(@, [sequence |-> r.entry.sequence,
                                                    payload |-> r.entry.payload])]
             [] r.result = "none" -> [reader EXCEPT !.it = r.it, !.pc = "done"]
             [] r.result = "hang" -> [reader EXCEPT !.it = r.it, !.pc = "hang"]
    /\ event' = None
    /\ UNCHANGED <<kv, meta, start_sequence, last_sequence, writer, call, hist, nonWalVars>>

\* ---- the namespace opens a newer bucket, between calls ----
NewBucket ==
    /\ Len(kv) < MaxBuckets
    /\ \A p \in Procs : call[p].pc = "idle"
    /\ kv' = Append(kv, {})
    /\ event' = None
    /\ reader' = ReaderAside
    /\ UNCHANGED <<meta, start_sequence, last_sequence, writer, call, hist, nonWalVars>>

\* the state of clean_deleted_logs when no call of it is at work
IdleCleaner ==
    [pc |-> "idle", start |-> 0, buckets |-> 0, bucket |-> 0, batch_size |-> 0,
     batches |-> <<>>, total_deleted |-> 0]

\* What the blocking task of TableUnit::open and of open_or_create comes
\* to: it builds the table unit (or finds no entry), table_kv.get of the
\* entry fails, the insert of the new entry fails, a scan of
\* load_last_sequence fails, or the runtime does not run the task.
OpenOutcomes == {"Ok", "GetValue", "WriteValue", "Scan", "RuntimeExec"}

\* ---- restart: the calls in flight (a clean_deleted_logs and a read
\* included) are lost and TableUnit::open (create = FALSE) or
\* open_or_create (create = TRUE) rebuilds the table unit from the store.
\* Without an entry in the meta table open returns Ok(None) and
\* open_or_create inserts the entry of TableUnitEntry::new, whose
\* start_sequence is 0 (one namespace opens the table unit: the insert
\* meets no entry of another writer; the store returns the keys and the
\* values that were written: nothing fails to decode).  A
\* panic of load_last_sequence ends the blocking task, and the call
\* returns RuntimeExec.  After an error or Ok(None) there is no table unit
\* (no call can begin) until a later open succeeds.  The stored logs below
\* the persisted start_sequence are marked deleted from now on, also when
\* the delete_entries_up_to that persisted it was lost ----
Reopen(create, outcome, overflow_checks) ==
    /\ outcome = "WriteValue" => (create /\ meta = None)
    /\ outcome = "Scan" => (create \/ meta # None)
    /\ LET c == [IdleCall EXCEPT !.op = "open", !.before = last_sequence]
           inserts == meta = None /\ create /\ outcome \in {"Ok", "Scan"}
           entry == IF inserts THEN Some(MIN_SEQUENCE_NUMBER)
                    ELSE IF outcome \in {"Ok", "Scan"} THEN meta ELSE None
           loaded == IF entry = None \/ outcome # "Ok" THEN Err(outcome)
                     ELSE load_last_sequence(kv, Location.region_id, Location.table_id,
                                             entry[1], overflow_checks)
       IN  /\ meta' = IF inserts THEN entry ELSE meta
           /\ IF loaded.ok
              THEN /\ start_sequence' = entry[1]
                   /\ last_sequence' = loaded.v
                   /\ call' = [p \in Procs |-> IdleCall]
                   /\ event' = Some(Return(0, "ok", "", 0, loaded.v, c))
                   /\ hist' = [hist EXCEPT !.high = 0,
                                 !.marked = @ \cup {s \in StoredSeqs(kv) : s < entry[1]}]
              ELSE /\ UNCHANGED <<start_sequence, last_sequence>>
                   /\ call' = [p \in Procs |-> DownCall]
                   /\ event' = Some(IF outcome = "Ok" /\ entry = None
                                    THEN Return(0, "none", "", 0, last_sequence, c)
                                    ELSE Return(0, "err",
                                                IF loaded.err = "panic" THEN "RuntimeExec"
                                                ELSE loaded.err,
                                                0, last_sequence, c))
                   /\ hist' = [hist EXCEPT !.high = 0]
    /\ writer' = 0
    /\ reader' = IdleReader
    /\ cleaner' = IdleCleaner
    /\ UNCHANGED <<kv, nonCleanVars>>

(***************************************************************************)
(* The opener of the tables of a shard                                     *)
(* (analytic_engine/src/instance/open.rs).                                 *)
(*                                                                         *)
(* A table data handle is a record [id, opened_by]: opened_by is the       *)
(* number of the open that recovered it from the manifest, 0 for a table   *)
(* the space held before the first open.  What is on disk for a table is   *)
(* one of DurableKinds and does not change: "manifest_error"               *)
(* (manifest.recover fails), "no_table" (it succeeds and the space holds   *)
(* no table data afterwards), "wal_error" (the table data is recovered     *)
(* and the replay of its WAL reports an error for the table), "good".      *)
(***************************************************************************)
MaxTables == 3
MaxOpens == 2

Tables == 1..MaxTables
DurableKinds == {"manifest_error", "no_table", "wal_error", "good"}

TableData(t, n) == [id |-> t, opened_by |-> n]

TableOpenStage_RecoverTableMeta == [kind |-> "RecoverTableMeta", table |-> None]
TableOpenStage_RecoverTableData(table_data) ==
    [kind |-> "RecoverTableData", table |-> Some(table_data)]
TableOpenStage_Failed == [kind |-> "Failed", table |-> None]
TableOpenStage_Success(data) == [kind |-> "Success", table |-> data]

\* Space::find_table_by_id.
find_table_by_id(sp, table_id) == sp[table_id]

\* The stage ShardOpener::init gives one table of the request.
ShardOpener_init_stage_always_recover(sp, table_id) ==
    TableOpenStage_RecoverTableMeta

ShardOpener_init_stage(sp, table_id) ==
    IF find_table_by_id(sp, table_id) # None
    THEN TableOpenStage_Success(find_table_by_id(sp, table_id))
    ELSE TableOpenStage_RecoverTableMeta

ShardOpener_init(sp, table_ctxs) ==
    [table_id \in table_ctxs |-> ShardOpener_init_stage(sp, table_id)]

\* Manifest::recover for one table: its result, and the space afterwards
\* (the manifest adds the table data it recovers to the space).
manifest_recover(dur, sp, table_id, n) ==
    CASE dur[table_id] = "manifest_error" -> [ok |-> FALSE, space |-> sp]
      [] dur[table_id] = "no_table" -> [ok |-> TRUE, space |-> sp]
      [] OTHER ->
           [ok |-> TRUE,
            space |-> IF sp[table_id] # None THEN sp
                      ELSE [sp EXCEPT ![table_id] = Some(TableData(table_id, n))]]

\* One round of the loop of recover_table_metas, after recover_single_table_meta
\* returned `recovered` for a table in the stage RecoverTableMeta: the stage
\* the table gets, or the error the function returns with.
recover_table_metas_stage_abort_on_error(stage, recovered, sp, table_id) ==
    CASE stage.kind = "RecoverTableMeta" /\ recovered /\ find_table_by_id(sp, table_id) # None ->
           Ok(TableOpenStage_RecoverTableData(find_table_by_id(sp, table_id)[1]))
      [] stage.kind = "RecoverTableMeta" /\ recovered ->
           Ok(TableOpenStage_Success(None))
      [] stage.kind = "Success" -> Ok(stage)
      [] OTHER -> Err("OpenTablesOfShard")

recover_table_metas_stage_skip_data(stage, recovered, sp, table_id) ==
    CASE stage.kind = "RecoverTableMeta" /\ recovered ->
           Ok(TableOpenStage_Success(find_table_by_id(sp, table_id)))
      [] stage.kind = "RecoverTableMeta" -> Ok(TableOpenStage_Failed)
      [] stage.kind = "Success" -> Ok(stage)
      [] OTHER -> Err("OpenTablesOfShard")

recover_table_metas_stage(stage, recovered, sp, table_id) ==
    CASE stage.kind = "RecoverTableMeta" /\ recovered /\ find_table_by_id(sp, table_id) # None ->
           Ok(TableOpenStage_RecoverTableData(find_table_by_id(sp, table_id)[1]))
      [] stage.kind = "RecoverTableMeta" /\ recovered ->
           Ok(TableOpenStage_Success(None))
      [] stage.kind = "RecoverTableMeta" -> Ok(TableOpenStage_Failed)
      [] stage.kind = "Success" -> Ok(stage)
      [] OTHER -> Err("OpenTablesOfShard")

\* The first loop of recover_table_datas: the tables to replay, or the error.
replay_table_datas(st) ==
    IF \E table_id \in DOMAIN st : st[table_id].kind = "RecoverTableMeta"
    THEN Err("OpenTablesOfShard")
    ELSE Ok({table_id \in DOMAIN st : st[table_id].kind = "RecoverTableData"})

\* WalReplayer: the result of the replay for one table.
replay_table_result(dur, table_id) == dur[table_id] # "wal_error"

\* recover_table_datas that leaves a replayed table in its stage.
recover_table_datas_stage_keeps_stage(stage, table_result) ==
    CASE stage.kind = "RecoverTableData" /\ table_result -> Ok(stage)
      [] stage.kind = "RecoverTableData" -> Ok(TableOpenStage_Failed)
      [] OTHER -> Err("OpenTablesOfShard")

\* The second loop of recover_table_datas, for one replayed table.
recover_table_datas_stage(stage, table_result) ==
    CASE stage.kind = "RecoverTableData" /\ table_result ->
           Ok(TableOpenStage_Success(stage.table))
      [] stage.kind = "RecoverTableData" -> Ok(TableOpenStage_Failed)
      [] OTHER -> Err("OpenTablesOfShard")

\* The end of ShardOpener::open: the result map made of the stages.
table_results_of(st) ==
    IF \E table_id \in DOMAIN st :
         st[table_id].kind \in {"RecoverTableMeta", "RecoverTableData"}
    THEN Err("OpenTablesOfShard")
    ELSE Ok([table_id \in DOMAIN st |->
               IF st[table_id].kind = "Failed" THEN Err("Failed")
               ELSE Ok(st[table_id].table)])

NoStates == [table_id \in {} |-> TableOpenStage_Failed]

IdleOpener == [pc |-> "idle", visited |-> {}, replay |-> {}, table_results |-> {}]

NoOpenHist ==
    [opens |-> 0, space0 |-> [t \in Tables |-> None], recovered |-> {},
     replayed |-> {}, replay_failed |-> FALSE, first |-> None]

OpenIdle ==
    /\ durable = [t \in Tables |-> "good"]
    /\ space = [t \in Tables |-> None]
    /\ request = {}
    /\ states = NoStates
    /\ opener = IdleOpener
    /\ open_result = None
    /\ open_hist = NoOpenHist

OpenInit ==
    /\ durable \in [Tables -> DurableKinds]
    /\ \E held \in SUBSET Tables :
         space = [t \in Tables |-> IF t \in held THEN Some(TableData(t, 0)) ELSE None]
    /\ request \in SUBSET Tables
    /\ states = NoStates
    /\ opener = IdleOpener
    /\ open_result = None
    /\ open_hist = NoOpenHist

\* open returns: the ShardOpener is dropped.
OpenReturns(result, replay_failed) ==
    /\ open_result' = Some(result)
    /\ states' = NoStates
    /\ opener' = IdleOpener
    /\ open_hist' = [open_hist EXCEPT
                       !.replay_failed = replay_failed,
                       !.first = IF open_hist.opens = 1 THEN Some(result) ELSE @]

\* do_open_tables_of_shard up to the first round of recover_table_metas.
DoOpenTablesOfShard ==
    /\ opener.pc = "idle"
    /\ open_hist.opens < MaxOpens
    /\ states' = ShardOpener_init(space, request)
    /\ opener' = [IdleOpener EXCEPT
                    !.pc = IF request = {} THEN "recover_table_datas"
                           ELSE "recover_table_metas"]
    /\ open_result' = None
    /\ open_hist' = [open_hist EXCEPT !.opens = @ + 1, !.space0 = space,
                                      !.recovered = {}, !.replayed = {},
                                      !.replay_failed = FALSE]
    /\ UNCHANGED <<durable, space, request, nonOpenVars>>

\* One round of the loop of recover_table_metas; the map is visited in any order.
RecoverTableMeta(table_id) ==
    /\ opener.pc = "recover_table_metas"
    /\ table_id \in request \ opener.visited
    /\ LET stage == states[table_id]
           in_meta == stage.kind = "RecoverTableMeta"
           rec == IF in_meta
                  THEN manifest_recover(durable, space, table_id, open_hist.opens)
                  ELSE [ok |-> TRUE, space |-> space]
           next == recover_table_metas_stage(stage, rec.ok, rec.space, table_id)
       IN  /\ space' = rec.space
           /\ IF next.ok
              THEN /\ states' = [states EXCEPT ![table_id] = next.v]
                   /\ opener' = [opener EXCEPT
                                   !.visited = @ \cup {table_id},
                                   !.pc = IF opener.visited \cup {table_id} = request
                                          THEN "recover_table_datas" ELSE @]
                   /\ open_hist' = [open_hist EXCEPT
                                      !.recovered = IF in_meta THEN @ \cup {table_id} ELSE @]
                   /\ UNCHANGED open_result
              ELSE OpenReturns(Err(next.err), FALSE)
    /\ UNCHANGED <<durable, request, nonOpenVars>>

\* recover_table_datas up to WalReplayer::replay.
RecoverTableDatas_eager ==
    /\ opener.pc \in {"recover_table_metas", "recover_table_datas"}
    /\ opener' = [opener EXCEPT
                    !.pc = "replay",
                    !.replay = {table_id \in request :
                                  states[table_id].kind = "RecoverTableData"}]
    /\ UNCHANGED <<states, open_result, open_hist>>
    /\ UNCHANGED <<durable, space, request, nonOpenVars>>

RecoverTableDatas ==
    /\ opener.pc = "recover_table_datas"
    /\ LET tables == replay_table_datas(states)
       IN  IF tables.ok
           THEN /\ opener' = [opener EXCEPT !.pc = "replay", !.replay = tables.v]
                /\ UNCHANGED <<states, open_result, open_hist>>
           ELSE OpenReturns(Err(tables.err), FALSE)
    /\ UNCHANGED <<durable, space, request, nonOpenVars>>

\* WalReplayer::replay replays the WAL of one of its tables.
Replay(table_id) ==
    /\ opener.pc = "replay"
    /\ table_id \in opener.replay \ open_hist.replayed
    /\ opener' = [opener EXCEPT
                    !.table_results =
                        @ \cup {[id |-> table_id,
                                 ok |-> replay_table_result(durable, table_id)]}]
    /\ open_hist' = [open_hist EXCEPT !.replayed = @ \cup {table_id}]
    /\ UNCHANGED <<durable, space, request, states, open_result, nonOpenVars>>

\* WalReplayer::replay returns an error: open returns it.
ReplayFails ==
    /\ opener.pc = "replay"
    /\ OpenReturns(Err("ReplayWal"), TRUE)
    /\ UNCHANGED <<durable, space, request, nonOpenVars>>

\* WalReplayer::replay returns the results of its tables, and
\* recover_table_datas processes them.
ReplayReturns ==
    /\ opener.pc = "replay"
    /\ open_hist.replayed = opener.replay
    /\ LET next == [table_id \in request |->
                      IF table_id \in opener.replay
                      THEN recover_table_datas_stage(
                             states[table_id],
                             \E r \in opener.table_results : r.id = table_id /\ r.ok)
                      ELSE Ok(states[table_id])]
       IN  IF \A table_id \in request : next[table_id].ok
           THEN /\ states' = [table_id \in request |-> next[table_id].v]
                /\ opener' = [opener EXCEPT !.pc = "results"]
                /\ UNCHANGED <<open_result, open_hist>>
           ELSE OpenReturns(Err("OpenTablesOfShard"), FALSE)
    /\ UNCHANGED <<durable, space, request, nonOpenVars>>

\* The end of ShardOpener::open.
OpenResults ==
    /\ opener.pc = "results"
    /\ OpenReturns(table_results_of(states), FALSE)
    /\ UNCHANGED <<durable, space, request, nonOpenVars>>

(***************************************************************************)
(* The partitioned memory cache in front of an object store                *)
(* (components/object_store/src/mem_cache.rs).                             *)
(*                                                                         *)
(* A partition is a CLruCache with the weight of a value being its length: *)
(* [capacity, storage], storage being the entries [key, value] from the    *)
(* most to the least recently used.  The CLruCache charges every entry one *)
(* unit plus its weight: it is full when Len(storage) + weights reaches    *)
(* its capacity.                                                           *)
(***************************************************************************)
USIZE_BITS == 64
MaxPartitionBits == 1

PartitionBitsChoices == (0..MaxPartitionBits) \cup {USIZE_BITS}
MemCapChoices == {0, 1, 3, 5, 11, 13}
Locations == {"1.sst", "1.sst-0"}
Ranges == {<<0, 5>>, <<5, 10>>, <<10, 15>>, <<0, 1>>}
Callers == {1, 2}

\* The get_range calls made: every range of the first object, and of the
\* object whose name ends like a range the one that begins where it ends.
Requests ==
    {<<"1.sst", range>> : range \in Ranges} \cup {<<"1.sst-0", <<5, 10>>>>}
HashValues == 0..(2^MaxPartitionBits - 1)

RECURSIVE BitAnd(_, _)
BitAnd(a, b) ==
    IF a = 0 \/ b = 0 THEN 0
    ELSE (a % 2) * (b % 2) + 2 * BitAnd(a \div 2, b \div 2)

\* A cache key that leaves the end of the range out.
cache_key_without_end(location, range) ==
    location \o "-" \o ToString(range[1])

\* MemCacheStore::cache_key: format!("{}-{}-{}", location, range.start, range.end).
cache_key(location, range) ==
    location \o "-" \o ToString(range[1]) \o "-" \o ToString(range[2])

CacheKeys == {cache_key(asked[1], asked[2]) : asked \in Requests}

\* The bytes [start, end) of an object in the underlying store: the byte at
\* an offset is told by its object and the offset.
object_bytes(location, range) ==
    [i \in 1..(range[2] - range[1]) |-> <<location, range[1] + i - 1>>]

\* CustomScale::weight.
weight(key, value) == Len(value)

RECURSIVE SumWeights(_)
SumWeights(storage) ==
    IF storage = <<>> THEN 0
    ELSE weight(Head(storage).key, Head(storage).value) + SumWeights(Tail(storage))

\* Partition::new: NonZeroUsize::new(mem_cap).expect(..) panics on 0.
Partition_new(mem_cap) ==
    IF mem_cap = 0 THEN Err("panic: mem cap must large than 0")
    ELSE Ok([capacity |-> mem_cap, storage |-> <<>>])

IndexOfKey(storage, key) ==
    IF \E i \in 1..Len(storage) : storage[i].key = key
    THEN CHOOSE i \in 1..Len(storage) : storage[i].key = key
    ELSE 0

RemoveAt(storage, i) ==
    [j \in 1..(Len(storage) - 1) |-> IF j < i THEN storage[j] ELSE storage[j + 1]]

\* Partition::get: CLruCache::get makes the entry the most recently used.
Partition_get(partition, key) ==
    LET i == IndexOfKey(partition.storage, key)
    IN  IF i = 0 THEN [value |-> None, partition |-> partition]
        ELSE [value |-> Some(partition.storage[i].value),
              partition |-> [partition EXCEPT
                               !.storage = <<partition.storage[i]>>
                                           \o RemoveAt(partition.storage, i)]]

\* The loop of CLruCache::put_with_weight that makes room: the least recently
\* used entries go until one more entry of weight w fits.
RECURSIVE EvictFor(_, _, _)
EvictFor(storage, capacity, w) ==
    IF storage # <<>> /\ Len(storage) + SumWeights(storage) + w >= capacity
    THEN EvictFor(SubSeq(storage, 1, Len(storage) - 1), capacity, w)
    ELSE storage

\* Partition::insert: CLruCache::put_with_weight, its result dropped.
Partition_insert_no_reject(partition, key, value) ==
    LET i == IndexOfKey(partition.storage, key)
        rest == IF i = 0 THEN partition.storage ELSE RemoveAt(partition.storage, i)
        kept == EvictFor(rest, partition.capacity, weight(key, value))
    IN  [partition EXCEPT !.storage = <<[key |-> key, value |-> value]>> \o kept]

Partition_insert(partition, key, value) ==
    IF weight(key, value) >= partition.capacity THEN partition
    ELSE LET i == IndexOfKey(partition.storage, key)
             rest == IF i = 0 THEN partition.storage
                     ELSE RemoveAt(partition.storage, i)
             kept == EvictFor(rest, partition.capacity, weight(key, value))
         IN  [partition EXCEPT
                !.storage = <<[key |-> key, value |-> value]>> \o kept]

\* 1 << partition_bits on usize: with overflow checks the shift by
\* USIZE_BITS or more panics, without them the shift amount wraps.
shl_one(partition_bits, overflow_checks) ==
    IF partition_bits < USIZE_BITS THEN Ok(2^partition_bits)
    ELSE IF overflow_checks THEN Err("panic: attempt to shift left with overflow")
    ELSE Ok(2^(partition_bits % USIZE_BITS))

\* MemCache::new.
MemCache_new_cap_not_divided(partition_bits, mem_cap, overflow_checks) ==
    LET partition_num == shl_one(partition_bits, overflow_checks)
    IN  IF ~partition_num.ok THEN partition_num
        ELSE IF ~Partition_new(mem_cap).ok THEN Partition_new(mem_cap)
        ELSE Ok([mem_cap |-> mem_cap,
                 partitions |-> [i \in 1..partition_num.v |-> Partition_new(mem_cap).v],
                 partition_mask |-> partition_num.v - 1])

MemCache_new(partition_bits, mem_cap, overflow_checks) ==
    LET partition_num == shl_one(partition_bits, overflow_checks)
    IN  IF ~partition_num.ok THEN partition_num
        ELSE LET cap_per_part == mem_cap \div partition_num.v
             IN  IF ~Partition_new(cap_per_part).ok THEN Partition_new(cap_per_part)
                 ELSE Ok([mem_cap |-> mem_cap,
                          partitions |-> [i \in 1..partition_num.v |->
                                            Partition_new(cap_per_part).v],
                          partition_mask |-> partition_num.v - 1])

\* MemCache::locate_partition: the index of the partition of a key (from 1).
locate_partition(c, hash, key) == BitAnd(hash[key], c.partition_mask) + 1

\* MemCache::get.
MemCache_get(c, hash, key) ==
    LET n == locate_partition(c, hash, key)
        r == Partition_get(c.partitions[n], key)
    IN  [value |-> r.value, cache |-> [c EXCEPT !.partitions[n] = r.partition]]

\* MemCache::insert.
MemCache_insert(c, hash, key, value) ==
    LET n == locate_partition(c, hash, key)
    IN  [c EXCEPT !.partitions[n] = Partition_insert(c.partitions[n], key, value)]

\* MemCacheStore::new: assert!(mem_cap > 0), then MemCache::new.
MemCacheStore_new(partition_bits, mem_cap, overflow_checks) ==
    IF ~(mem_cap > 0) THEN Err("panic: assertion failed: mem_cap > 0")
    ELSE MemCache_new(partition_bits, mem_cap, overflow_checks)

IdleGetter == [pc |-> "idle", key |-> None, location |-> None, range |-> None]

CacheIdle ==
    /\ hashes = [key \in CacheKeys |-> 0]
    /\ object_store = "idle"
    /\ cache = None
    /\ getter = [p \in Callers |-> IdleGetter]
    /\ cache_event = None
    /\ cache_hist = None

CacheInit ==
    /\ hashes \in [CacheKeys -> HashValues]
    /\ object_store = "serving"
    /\ cache = None
    /\ getter = [p \in Callers |-> IdleGetter]
    /\ cache_event = None
    /\ cache_hist = None

\* MemCacheStore::new.
New(partition_bits, mem_cap, overflow_checks) ==
    /\ object_store = "serving"
    /\ cache = None
    /\ cache_event = None
    /\ LET c == MemCacheStore_new(partition_bits, mem_cap, overflow_checks)
       IN  /\ cache' = IF c.ok THEN Some(c.v) ELSE None
           /\ cache_event' = Some([op |-> "new", partition_bits |-> partition_bits,
                                   mem_cap |-> mem_cap, result |-> c])
    /\ UNCHANGED <<hashes, object_store, getter, cache_hist, nonCacheVars>>

\* What a get_range call returned, and whether it called the underlying store.
GetRangeReturn(location, range, key, hit, result) ==
    [op |-> "get_range", location |-> location, range |-> range, key |-> key,
     hit |-> hit, result |-> result, store_called |-> ~hit]

\* MemCacheStore::get_range up to the call of the underlying store.
\* cache_hist keeps the cache as a returning call found it.
GetRangeLookup(p, location, range) ==
    /\ cache # None
    /\ getter[p].pc = "idle"
    /\ LET key == cache_key(location, range)
           r == MemCache_get(cache[1], hashes, key)
       IN  /\ cache' = Some(r.cache)
           /\ IF r.value # None
              THEN /\ cache_event' = Some(GetRangeReturn(location, range, key, TRUE, Ok(r.value[1])))
                   /\ cache_hist' = cache
                   /\ UNCHANGED getter
              ELSE /\ getter' = [getter EXCEPT ![p] = [pc |-> "fetch", key |-> Some(key),
                                                          location |-> Some(location),
                                                          range |-> Some(range)]]
                   /\ UNCHANGED <<cache_event, cache_hist>>
    /\ UNCHANGED <<hashes, object_store, nonCacheVars>>

\* The rest of MemCacheStore::get_range: the underlying store answers, and
\* its bytes are inserted.
GetRangeFetch(p, failed) ==
    /\ getter[p].pc = "fetch"
    /\ LET key == getter[p].key[1]
           location == getter[p].location[1]
           range == getter[p].range[1]
           bytes == IF failed THEN Err("ObjectStore")
                    ELSE Ok(object_bytes(location, range))
       IN  /\ cache' = IF bytes.ok
                       THEN Some(MemCache_insert(cache[1], hashes, key, bytes.v))
                       ELSE cache
           /\ cache_event' = Some(GetRangeReturn(location, range, key, FALSE, bytes))
    /\ cache_hist' = cache
    /\ getter' = [getter EXCEPT ![p] = IdleGetter]
    /\ UNCHANGED <<hashes, object_store, nonCacheVars>>


(***************************************************************************)
(* The memtable key codec (analytic_engine/src/memtable/key.rs).           *)
(*                                                                         *)
(* A u64 or u32 exceeds the integers of the checker, so an unsigned        *)
(* integer is written as the sequence of its 16-bit limbs, the most        *)
(* significant first: four limbs for a SequenceNumber (u64), two for a     *)
(* RowIndex (u32).  A byte string is a sequence of numbers in 0..255.      *)
(***************************************************************************)
LIMB == 65536

KEY_SEQUENCE_BYTES_LEN == 12

SequenceNumber_MAX == <<LIMB - 1, LIMB - 1, LIMB - 1, LIMB - 1>>
RowIndex_MAX == <<LIMB - 1, LIMB - 1>>

\* a < b, a <= b on unsigned integers of the same width
RECURSIVE uint_lt(_, _)
uint_lt(a, b) ==
    IF a = <<>> THEN FALSE
    ELSE IF Head(a) # Head(b) THEN Head(a) < Head(b)
    ELSE uint_lt(Tail(a), Tail(b))

uint_le(a, b) == a = b \/ uint_lt(a, b)

\* a - b for b <= a (RowIndex::MAX - index, SequenceNumber::MAX - sequence):
\* the subtraction of the limbs from the least significant one, with borrow.
RECURSIVE uint_sub_borrow(_, _, _)
uint_sub_borrow(a, b, borrow) ==
    IF a = <<>> THEN <<>>
    ELSE LET n == Len(a)
             d == a[n] - b[n] - borrow
         IN  uint_sub_borrow(SubSeq(a, 1, n - 1), SubSeq(b, 1, n - 1),
                             IF d < 0 THEN 1 ELSE 0)
             \o <<IF d < 0 THEN d + LIMB ELSE d>>

uint_sub(a, b) == uint_sub_borrow(a, b, 0)

\* u64::to_be_bytes, u32::to_be_bytes
RECURSIVE to_be_bytes(_)
to_be_bytes(x) ==
    IF x = <<>> THEN <<>>
    ELSE <<Head(x) \div 256, Head(x) % 256>> \o to_be_bytes(Tail(x))

\* u64::from_be_bytes, u32::from_be_bytes
RECURSIVE from_be_bytes(_)
from_be_bytes(bytes) ==
    IF bytes = <<>> THEN <<>>
    ELSE <<bytes[1] * 256 + bytes[2]>> \o from_be_bytes(Tail(Tail(bytes)))

\* The same in little endian.
try_put_uint_le(buf, x) ==
    LET be == to_be_bytes(x)
    IN  buf \o [i \in 1..Len(be) |-> be[Len(be) + 1 - i]]

\* SafeBufMut::try_put_u64 / try_put_u32 on a growable buffer: big endian
try_put_uint(buf, x) == buf \o to_be_bytes(x)

\* SafeBuf::try_get_u64 (size 8) / try_get_u32 (size 4) on a slice: the
\* value and the rest of the slice, or an error on a short slice
try_get_uint(buf, size) ==
    IF Len(buf) < size THEN Err("UnexpectedEof")
    ELSE Ok([value |-> from_be_bytes(SubSeq(buf, 1, size)),
             rest |-> SubSeq(buf, size + 1, Len(buf))])

KeySequence_new(sequence, index) == [sequence |-> sequence, row_index |-> index]

\* encode_sequence_number without the reversal of the sequence.
encode_sequence_number_ascending(buf, sequence) ==
    try_put_uint(buf, sequence)

\* encode_sequence_number
encode_sequence_number(buf, sequence) ==
    LET reversed_sequence == uint_sub(SequenceNumber_MAX, sequence)
    IN  try_put_uint(buf, reversed_sequence)

\* <SequenceCodec as Encoder<KeySequence>>::encode
SequenceCodec_encode(buf, value) ==
    LET with_sequence == encode_sequence_number(buf, value.sequence)
        reversed_index == uint_sub(RowIndex_MAX, value.row_index)
    IN  try_put_uint(with_sequence, reversed_index)

\* <SequenceCodec as Decoder<KeySequence>>::decode
SequenceCodec_decode_no_reverse(buf) ==
    LET s == try_get_uint(buf, 8)
    IN  IF ~s.ok THEN Err("DecodeSequence")
        ELSE LET i == try_get_uint(s.v.rest, 4)
             IN  IF ~i.ok THEN Err("DecodeIndex")
                 ELSE Ok(KeySequence_new(s.v.value, i.v.value))

SequenceCodec_decode(buf) ==
    LET s == try_get_uint(buf, 8)
    IN  IF ~s.ok THEN Err("DecodeSequence")
        ELSE LET sequence == uint_sub(SequenceNumber_MAX, s.v.value)
                 i == try_get_uint(s.v.rest, 4)
             IN  IF ~i.ok THEN Err("DecodeIndex")
                 ELSE LET row_index == uint_sub(RowIndex_MAX, i.v.value)
                      IN  Ok(KeySequence_new(sequence, row_index))

\* internal_key_for_seek
internal_key_for_seek(user_key, sequence) ==
    encode_sequence_number(user_key, sequence)

\* user_key_from_internal_key
user_key_from_internal_key(internal_key) ==
    IF ~(Len(internal_key) > KEY_SEQUENCE_BYTES_LEN)
    THEN Err("InternalKeyLen")
    ELSE LET mid == Len(internal_key) - KEY_SEQUENCE_BYTES_LEN
             left == SubSeq(internal_key, 1, mid)
             right == SubSeq(internal_key, mid + 1, Len(internal_key))
             sequence == SequenceCodec_decode(right)
         IN  IF ~sequence.ok THEN sequence
             ELSE Ok([user_key |-> left, sequence |-> sequence.v])

\* <[u8] as Ord>::cmp: lexicographic, a proper prefix is the smaller one
RECURSIVE slice_cmp(_, _)
slice_cmp(lhs, rhs) ==
    IF lhs = <<>> /\ rhs = <<>> THEN "Equal"
    ELSE IF lhs = <<>> THEN "Less"
    ELSE IF rhs = <<>> THEN "Greater"
    ELSE IF Head(lhs) < Head(rhs) THEN "Less"
    ELSE IF Head(lhs) > Head(rhs) THEN "Greater"
    ELSE slice_cmp(Tail(lhs), Tail(rhs))

\* BytewiseComparator::compare_key, BytewiseComparator::same_key
compare_key(lhs, rhs) == slice_cmp(lhs, rhs)
same_key(lhs, rhs) == lhs = rhs

(***************************************************************************)
(* The memcomparable encoding of a key datum (codec::memcomparable): a     *)
(* byte string is a flag byte followed by groups of ENC_GROUP_SIZE bytes,  *)
(* the last one padded with ENC_PAD, each followed by a marker byte        *)
(* ENC_MARKER - (number of pad bytes).                                     *)
(***************************************************************************)
BYTES_FLAG == 1
ENC_GROUP_SIZE == 8
ENC_MARKER == 255
ENC_PAD == 0

RECURSIVE encode_bytes_from(_, _)
encode_bytes_from(value, idx) ==
    LET remain == Len(value) - idx
    IN  IF remain >= ENC_GROUP_SIZE
        THEN SubSeq(value, idx + 1, idx + ENC_GROUP_SIZE) \o <<ENC_MARKER>>
             \o encode_bytes_from(value, idx + ENC_GROUP_SIZE)
        ELSE LET pad_count == ENC_GROUP_SIZE - remain
             IN  SubSeq(value, idx + 1, Len(value))
                 \o [i \in 1..pad_count |-> ENC_PAD]
                 \o <<ENC_MARKER - pad_count>>

\* <MemComparable as Encoder<Datum>>::encode of a Varbinary datum
MemComparable_encode(buf, datum) ==
    buf \o <<BYTES_FLAG>> \o encode_bytes_from(datum, 0)

\* <ComparableInternalKey as Encoder<Row>>::encode, on a row whose primary
\* key is one Varbinary column
ComparableInternalKey_encode(buf, sequence, row) ==
    LET user_key == MemComparable_encode(buf, row)
    IN  SequenceCodec_encode(user_key, sequence)

(***************************************************************************)
(* The calls of the codec: one call on two rows a and b and a snapshot     *)
(* sequence.                                                               *)
(***************************************************************************)
MaxKeyLen == 2
KeyBytes == {0, 255}

RECURSIVE BytesUpTo(_)
BytesUpTo(n) ==
    IF n = 0 THEN {<<>>}
    ELSE LET shorter == BytesUpTo(n - 1)
         IN  shorter \cup {Append(k, b) : k \in {s \in shorter : Len(s) = n - 1},
                                          b \in KeyBytes}

KeyChoices == BytesUpTo(MaxKeyLen)
SequenceChoices == {<<0, 0, 0, 0>>, <<0, 0, 0, 1>>, <<0, 0, 0, 256>>, SequenceNumber_MAX}
RowIndexChoices == {<<0, 1>>, <<0, 256>>, RowIndex_MAX}
KeyEntries == [key : KeyChoices, sequence : SequenceChoices, row_index : RowIndexChoices]

KeyIdle ==
    /\ key_in = [a |-> [key |-> <<>>, sequence |-> <<0, 0, 0, 0>>, row_index |-> <<0, 1>>],
                 b |-> [key |-> <<>>, sequence |-> <<0, 0, 0, 0>>, row_index |-> <<0, 1>>],
                 snapshot |-> <<0, 0, 0, 0>>]
    /\ key_out = None

KeyInit ==
    /\ key_in \in [a : KeyEntries, b : KeyEntries, snapshot : SequenceChoices]
    /\ key_out = None

\* SequenceCodec.encode after the user key a.key, as test_sequence_codec
\* does after an empty buffer, and user_key_from_internal_key on the result
DecodeInternalKey ==
    /\ key_out = None
    /\ \E encoded \in {SequenceCodec_encode(<<>>,
                         KeySequence_new(key_in.a.sequence, key_in.a.row_index))} :
         key_out' = Some([op |-> "decode",
                          encoded |-> encoded,
                          decoded |-> user_key_from_internal_key(key_in.a.key \o encoded)])
    /\ UNCHANGED <<key_in, nonKeyVars>>

\* ComparableInternalKey::encode of the rows a and b, and the comparison of
\* the two internal keys
CompareInternalKeys ==
    /\ key_out = None
    /\ \E ka \in {ComparableInternalKey_encode(<<>>,
                     KeySequence_new(key_in.a.sequence, key_in.a.row_index), key_in.a.key)} :
       \E kb \in {ComparableInternalKey_encode(<<>>,
                     KeySequence_new(key_in.b.sequence, key_in.b.row_index), key_in.b.key)} :
         key_out' = Some([op |-> "compare", a |-> ka, b |-> kb,
                          ordering |-> compare_key(ka, kb),
                          same |-> same_key(ka, kb)])
    /\ UNCHANGED <<key_in, nonKeyVars>>

\* internal_key_for_seek on the user key of a and the snapshot, and the
\* comparison of the seek key with the internal keys of a and b
SeekInternalKey ==
    /\ key_out = None
    /\ \E ka \in {ComparableInternalKey_encode(<<>>,
                     KeySequence_new(key_in.a.sequence, key_in.a.row_index), key_in.a.key)} :
       \E kb \in {ComparableInternalKey_encode(<<>>,
                     KeySequence_new(key_in.b.sequence, key_in.b.row_index), key_in.b.key)} :
       \E seek \in {internal_key_for_seek(MemComparable_encode(<<>>, key_in.a.key),
                                          key_in.snapshot)} :
         key_out' = Some([op |-> "seek", a |-> ka, b |-> kb, seek |-> seek,
                          seek_a |-> compare_key(seek, ka),
                          seek_b |-> compare_key(seek, kb)])
    /\ UNCHANGED <<key_in, nonKeyVars>>

(***************************************************************************)
(* The contiguous row codec (common_types/src/row/contiguous.rs).          *)
(*                                                                         *)
(* A datum is a record with its kind: [kind |-> "Null"], a number          *)
(* [kind, v] (negative ones included for the signed kinds, the bits of a   *)
(* Double or Float), a Boolean [kind, b] with b TRUE or FALSE,             *)
(* or a String / Varbinary [kind, len, seed] of len bytes, the             *)
(* i-th of which (from 0) is (seed + i) % 256, so that a string of 16 MiB  *)
(* is one record.  A row buffer is its length, the value it was filled     *)
(* with by reset, and the slices written into it since, oldest first; the  *)
(* byte at a position is the one of the latest slice that covers it.       *)
(* A usize that wrapped below zero is written as the negative number it    *)
(* would have been (it stands for 2^64 plus that number).                  *)
(***************************************************************************)
MAX_STRING_LEN == 1024 * 1024 * 16
MAX_ROW_LEN == 1024 * 1024 * 1024

Panic == [ok |-> FALSE, err |-> "panic"]

\* DatumKind, in the order of its declaration
DatumKinds ==
    <<"Null", "Timestamp", "Double", "Float", "Varbinary", "String", "UInt64",
      "UInt32", "UInt16", "UInt8", "Int64", "Int32", "Int16", "Int8", "Boolean",
      "Date", "Time">>

\* DatumKind::into_u8
DatumKind_into_u8(kind) == (CHOOSE i \in 1..Len(DatumKinds) : DatumKinds[i] = kind) - 1

\* DatumKind::try_from(u8)
DatumKind_try_from(byte) ==
    IF byte < Len(DatumKinds) THEN Ok(DatumKinds[byte + 1]) ELSE Err("UnknownDatumType")

\* Datum::is_null, Datum::is_fixed_sized, Datum::size of a string
is_null(datum) == datum.kind = "Null"
is_fixed_sized(datum) == datum.kind \notin {"String", "Varbinary"}
size(datum) == datum.len

\* the bytes of a String / Varbinary datum from position from, count of them
string_bytes(datum, from, count) ==
    [i \in 1..count |-> (datum.seed + from + i - 1) % 256]

\* Datum::as_view
as_view(datum) ==
    IF is_null(datum) THEN [kind |-> "Null"]
    ELSE IF datum.kind = "Boolean" THEN [kind |-> datum.kind, b |-> datum.b]
    ELSE IF is_fixed_sized(datum) THEN [kind |-> datum.kind, v |-> datum.v]
    ELSE [kind |-> datum.kind, bytes |-> string_bytes(datum, 0, datum.len)]

\* byte_size_of_datum
byte_size_of_datum(kind) ==
    LET datum_size ==
            CASE kind = "Null" -> 1
              [] kind \in {"Timestamp", "Double", "UInt64", "Int64", "Time"} -> 8
              [] kind \in {"Float", "UInt32", "Int32", "Date"} -> 4
              [] kind \in {"Varbinary", "String"} -> 4
              [] kind \in {"UInt16", "Int16"} -> 2
              [] kind \in {"UInt8", "Int8", "Boolean"} -> 1
    IN  datum_size + 1

\* to_ne_bytes of a value of size bytes, on a little or big endian target; a
\* negative value gives its two's complement (% and \div round down)
RECURSIVE to_le_bytes(_, _)
to_le_bytes(v, n) ==
    IF n = 0 THEN <<>> ELSE <<v % 256>> \o to_le_bytes(v \div 256, n - 1)

to_ne_bytes(v, n, big_endian) ==
    LET le == to_le_bytes(v, n)
    IN  IF big_endian THEN [i \in 1..n |-> le[n + 1 - i]] ELSE le

\* from_ne_bytes
RECURSIVE from_le_bytes(_)
from_le_bytes(bytes) ==
    IF bytes = <<>> THEN 0 ELSE Head(bytes) + 256 * from_le_bytes(Tail(bytes))

from_ne_bytes(bytes, big_endian) ==
    IF big_endian THEN from_le_bytes([i \in 1..Len(bytes) |-> bytes[Len(bytes) + 1 - i]])
    ELSE from_le_bytes(bytes)

\* i8 / i16 / i32 / i64 ::from_ne_bytes, and `as i8` of one byte
RECURSIVE signed_from_le_bytes(_)
signed_from_le_bytes(bytes) ==
    IF Len(bytes) = 1 THEN (IF Head(bytes) >= 128 THEN Head(bytes) - 256 ELSE Head(bytes))
    ELSE Head(bytes) + 256 * signed_from_le_bytes(Tail(bytes))

signed_from_ne_bytes(bytes, big_endian) ==
    IF big_endian THEN signed_from_le_bytes([i \in 1..Len(bytes) |-> bytes[Len(bytes) + 1 - i]])
    ELSE signed_from_le_bytes(bytes)

\* the kinds whose value is an i8, i16, i32 or i64
SignedKinds == {"Timestamp", "Int64", "Int32", "Int16", "Int8", "Date", "Time"}

\* Schema::num_columns, Schema::byte_offsets, Schema::string_buffer_offset of a
\* schema given by the kinds of its columns
num_columns(schema) == Len(schema)

RECURSIVE string_buffer_offset(_)
string_buffer_offset(schema) ==
    IF schema = <<>> THEN 0
    ELSE byte_size_of_datum(schema[Len(schema)])
         + string_buffer_offset(SubSeq(schema, 1, Len(schema) - 1))

byte_offsets(schema) ==
    [i \in 1..Len(schema) |-> string_buffer_offset(SubSeq(schema, 1, i - 1))]

\* IndexInWriterSchema::column_index_in_writer
column_index_in_writer(index_in_writer, index_in_table) == index_in_writer[index_in_table + 1]

\* BitSet: its bytes and its number of bits; bit i is bit i % 8 of byte i / 8
BitSet_num_bytes(num_bits) == (num_bits + 7) \div 8
BitSet_new(num_bits) ==
    [buffer |-> [i \in 1..BitSet_num_bytes(num_bits) |-> 0], num_bits |-> num_bits]
BitSet_try_from_raw(buffer, num_bits) ==
    IF Len(buffer) < BitSet_num_bytes(num_bits) THEN None
    ELSE Some([buffer |-> buffer, num_bits |-> num_bits])
BitSet_is_set(bit_set, index) ==
    IF index >= bit_set.num_bits THEN None
    ELSE Some((bit_set.buffer[(index \div 8) + 1] \div (2 ^ (index % 8))) % 2 = 1)
BitSet_set(bit_set, index) ==
    IF index >= bit_set.num_bits \/ BitSet_is_set(bit_set, index) = Some(TRUE) THEN bit_set
    ELSE [bit_set EXCEPT !.buffer[(index \div 8) + 1] = @ + 2 ^ (index % 8)]

\* <Vec<u8> as RowBuffer>::reset
RowBuffer_reset(new_len, value) == [len |-> new_len, fill |-> value, writes |-> <<>>]

\* inner[index]
RECURSIVE latest_write(_, _, _)
latest_write(writes, n, index) ==
    IF n = 0 THEN 0
    ELSE IF writes[n].at <= index /\ index < writes[n].at + writes[n].len THEN n
    ELSE latest_write(writes, n - 1, index)

byte_at(inner, index) ==
    LET n == latest_write(inner.writes, Len(inner.writes), index)
    IN  IF n = 0 THEN inner.fill
        ELSE LET w == inner.writes[n]
             IN  IF w.explicit THEN w.bytes[index - w.at + 1]
                 ELSE (w.seed + (index - w.at)) % 256

\* &inner[from..to], for a range within the buffer
slice(inner, from, to) == [i \in 1..(to - from) |-> byte_at(inner, from + i - 1)]

\* ContiguousRowWriter::write_byte_to_offset
write_byte_to_offset(inner, offset, value) ==
    IF offset < 0 \/ offset >= inner.len THEN Panic
    ELSE Ok([inner |-> [inner EXCEPT !.writes =
                          Append(@, [at |-> offset, len |-> 1, explicit |-> TRUE,
                                     bytes |-> <<value>>, seed |-> 0])],
             offset |-> offset + 1])

\* ContiguousRowWriter::write_slice_to_offset, of explicit bytes
write_slice_to_offset(inner, offset, value_buf) ==
    IF offset < 0 \/ offset + Len(value_buf) > inner.len THEN Panic
    ELSE Ok([inner |-> [inner EXCEPT !.writes =
                          Append(@, [at |-> offset, len |-> Len(value_buf), explicit |-> TRUE,
                                     bytes |-> value_buf, seed |-> 0])],
             offset |-> offset + Len(value_buf)])

\* ContiguousRowWriter::write_slice_to_offset, of the bytes of a string datum
write_string_to_offset(inner, offset, datum) ==
    IF offset < 0 \/ offset + datum.len > inner.len THEN Panic
    ELSE Ok([inner |-> [inner EXCEPT !.writes =
                          Append(@, [at |-> offset, len |-> datum.len, explicit |-> FALSE,
                                     bytes |-> <<>>, seed |-> datum.seed])],
             offset |-> offset + datum.len])

\* ContiguousRowWriter::write_datum: the writer w is the buffer, the datum
\* offset and the next string offset
write_datum(w, datum, big_endian) ==
    IF is_null(datum) THEN Ok(w)
    ELSE LET kind == write_byte_to_offset(w.inner, w.offset, DatumKind_into_u8(datum.kind))
         IN
         IF ~kind.ok THEN kind
         ELSE IF is_fixed_sized(datum)
         THEN LET value == write_slice_to_offset(kind.v.inner, kind.v.offset,
                              IF datum.kind = "Boolean" THEN <<IF datum.b THEN 1 ELSE 0>>
                              ELSE to_ne_bytes(datum.v, byte_size_of_datum(datum.kind) - 1,
                                               big_endian))
              IN  IF ~value.ok THEN value
                  ELSE Ok([w EXCEPT !.inner = value.v.inner, !.offset = value.v.offset])
         ELSE IF ~(0 <= w.next_string_offset /\ w.next_string_offset <= MAX_ROW_LEN)
         THEN Err("StringTooLong")
         ELSE LET value == write_slice_to_offset(kind.v.inner, kind.v.offset,
                              to_ne_bytes(w.next_string_offset, 4, big_endian))
                  advanced == w.next_string_offset + 4 + datum.len
              IN
              IF ~value.ok THEN value
              ELSE IF ~(datum.len <= MAX_STRING_LEN) THEN Err("StringTooLong")
              ELSE LET string_len == write_slice_to_offset(value.v.inner, advanced,
                                        to_ne_bytes(datum.len, 4, big_endian))
                   IN
                   IF ~string_len.ok THEN string_len
                   ELSE LET string == write_string_to_offset(string_len.v.inner,
                                                             string_len.v.offset, datum)
                        IN  IF ~string.ok THEN string
                            ELSE Ok([inner |-> string.v.inner, offset |-> value.v.offset,
                                     next_string_offset |-> string.v.offset,
                                     bits |-> w.bits])

\* The writer context c: table_schema, index_in_writer, the row, and the
\* build: the endianness of the target, overflow checks, debug assertions.
datum_in_writer(c, index_in_table) ==
    LET writer_index == column_index_in_writer(c.index_in_writer, index_in_table)
    IN  IF writer_index = None THEN None ELSE Some(c.row[writer_index[1] + 1])

\* the loop of write_row that counts the null columns
RECURSIVE count_null_cols(_, _)
count_null_cols(c, index_in_table) ==
    IF index_in_table = num_columns(c.table_schema) THEN 0
    ELSE LET datum == datum_in_writer(c, index_in_table)
         IN  (IF datum = None \/ is_null(datum[1]) THEN 1 ELSE 0)
             + count_null_cols(c, index_in_table + 1)

\* the loops that size the buffer: the bytes of the datums that are not
\* null, and the bytes of the strings with their lengths
RECURSIVE bytes_of_datums(_, _)
bytes_of_datums(c, index_in_table) ==
    IF index_in_table = num_columns(c.table_schema) THEN 0
    ELSE LET datum == datum_in_writer(c, index_in_table)
         IN  (IF datum # None /\ ~is_null(datum[1])
              THEN byte_size_of_datum(datum[1].kind) ELSE 0)
             + bytes_of_datums(c, index_in_table + 1)

RECURSIVE bytes_of_strings(_, _)
bytes_of_strings(c, index_in_table) ==
    IF index_in_table = num_columns(c.table_schema) THEN 0
    ELSE LET datum == datum_in_writer(c, index_in_table)
         IN  (IF datum # None /\ ~is_fixed_sized(datum[1])
              THEN size(datum[1]) + 4 ELSE 0)
             + bytes_of_strings(c, index_in_table + 1)

\* the loop that writes the datums; with_nulls: it also sets the bits
RECURSIVE write_datums(_, _, _, _)
write_datums(c, w, index_in_table, with_nulls) ==
    IF index_in_table = num_columns(c.table_schema) THEN Ok(w)
    ELSE LET writer_index == column_index_in_writer(c.index_in_writer, index_in_table)
         IN  IF writer_index = None THEN write_datums(c, w, index_in_table + 1, with_nulls)
             ELSE CHOOSE out \in
                    { IF ~r.ok THEN r
                      ELSE write_datums(c,
                             [r.v EXCEPT !.bits = IF with_nulls
                                                  THEN BitSet_set(@, writer_index[1])
                                                  ELSE @],
                             index_in_table + 1, with_nulls)
                      : r \in {write_datum(w, c.row[writer_index[1] + 1], c.big_endian)} } : TRUE

\* ContiguousRowWriter::write_row_with_nulls
write_row_with_nulls(c) ==
    LET num_bytes_of_string == bytes_of_strings(c, 0)
        num_bits == num_columns(c.table_schema)
        nulls_bit_set == BitSet_new(num_bits)
        encoded_len == bytes_of_datums(c, 0) + 4 + Len(nulls_bit_set.buffer)
        inner == RowBuffer_reset(encoded_len, 0)
        next_string_offset == encoded_len - num_bytes_of_string
        datum_offset == 4 + Len(nulls_bit_set.buffer)
    IN  IF next_string_offset < 0 /\ c.overflow_checks THEN Panic
        ELSE CHOOSE out \in
               { IF ~w.ok THEN w
                 ELSE LET num == write_slice_to_offset(w.v.inner, 0,
                                    to_ne_bytes(num_bits, 4, c.big_endian))
                          bits == write_slice_to_offset(num.v.inner, 4, w.v.bits.buffer)
                      IN  IF c.debug_assertions
                             /\ (w.v.offset # encoded_len - num_bytes_of_string
                                 \/ w.v.next_string_offset # encoded_len)
                          THEN Panic
                          ELSE Ok(bits.v.inner)
                 : w \in {write_datums(c, [inner |-> inner, offset |-> datum_offset,
                                           next_string_offset |-> next_string_offset,
                                           bits |-> nulls_bit_set], 0, TRUE)} } : TRUE

\* ContiguousRowWriter::write_row_without_nulls
write_row_without_nulls(c) ==
    LET datum_buffer_len == string_buffer_offset(c.table_schema) + 4
        encoded_len == datum_buffer_len + bytes_of_strings(c, 0)
        inner == RowBuffer_reset(encoded_len, DatumKind_into_u8("Null"))
    IN  CHOOSE out \in
          { IF ~w.ok THEN w
            ELSE IF c.debug_assertions
                    /\ (w.v.offset # datum_buffer_len \/ w.v.next_string_offset # encoded_len)
            THEN Panic
            ELSE Ok(w.v.inner)
            : w \in {write_datums(c, [inner |-> inner, offset |-> 4,
                                      next_string_offset |-> datum_buffer_len,
                                      bits |-> BitSet_new(0)], 0, FALSE)} } : TRUE

\* ContiguousRowWriter::write_row
write_row(c) ==
    LET num_null_cols == count_null_cols(c, 0)
    IN  IF num_null_cols > 0 THEN write_row_with_nulls(c) ELSE write_row_without_nulls(c)

\* must_read_bytes
must_read_bytes(inner, datum_buf, big_endian) ==
    IF datum_buf + 4 > inner.len THEN Panic
    ELSE LET offset == from_ne_bytes(slice(inner, datum_buf, datum_buf + 4), big_endian)
         IN  IF offset > inner.len \/ offset + 4 > inner.len THEN Panic
             ELSE LET string_len == from_ne_bytes(slice(inner, offset, offset + 4), big_endian)
                  IN  IF offset + 4 + string_len > inner.len THEN Panic
                      ELSE Ok(slice(inner, offset + 4, offset + 4 + string_len))

\* must_read_view, on the datum buffer that starts at datum_buf
must_read_view(datum_kind, inner, datum_buf, big_endian) ==
    IF datum_kind = "Null" THEN Ok([kind |-> "Null"])
    ELSE IF datum_kind \in {"Varbinary", "String"}
    THEN LET bytes == must_read_bytes(inner, datum_buf, big_endian)
         IN  IF ~bytes.ok THEN bytes ELSE Ok([kind |-> datum_kind, bytes |-> bytes.v])
    ELSE LET n == byte_size_of_datum(datum_kind) - 1
         IN  IF datum_buf + n > inner.len THEN Panic
             ELSE IF datum_kind = "Boolean"
             THEN Ok([kind |-> datum_kind, b |-> (byte_at(inner, datum_buf) # 0)])
             ELSE IF datum_kind \in SignedKinds
             THEN Ok([kind |-> datum_kind,
                      v |-> signed_from_ne_bytes(slice(inner, datum_buf, datum_buf + n),
                                                 big_endian)])
             ELSE Ok([kind |-> datum_kind,
                      v |-> from_ne_bytes(slice(inner, datum_buf, datum_buf + n), big_endian)])

\* datum_view_at (the function), on the datum buffer that starts at datum_buf
datum_view_at(inner, datum_buf, big_endian) ==
    IF datum_buf >= inner.len THEN Panic
    ELSE LET datum_kind == DatumKind_try_from(byte_at(inner, datum_buf))
         IN  IF ~datum_kind.ok THEN Ok([kind |-> "Null"])
             ELSE must_read_view(datum_kind.v, inner, datum_buf + 1, big_endian)

\* the loop of ContiguousRowReaderWithNulls::try_new over schema.byte_offsets()
RECURSIVE col_offsets(_, _, _, _)
col_offsets(schema, nulls_bit_set, index, acc_null_bytes) ==
    IF index = num_columns(schema) THEN <<>>
    ELSE LET expect_offset == byte_offsets(schema)[index + 1]
             set == BitSet_is_set(nulls_bit_set, index)
         IN  IF set = Some(TRUE)
             THEN <<expect_offset - acc_null_bytes>>
                  \o col_offsets(schema, nulls_bit_set, index + 1, acc_null_bytes)
             ELSE IF set = Some(FALSE)
             THEN <<-1>> \o col_offsets(schema, nulls_bit_set, index + 1,
                                        acc_null_bytes + byte_size_of_datum(schema[index + 1]))
             ELSE <<-1>> \o col_offsets(schema, nulls_bit_set, index + 1, acc_null_bytes)

\* ContiguousRowReaderWithNulls::try_new
ContiguousRowReaderWithNulls_try_new(inner, schema, num_null_cols) ==
    LET bit_set_size == BitSet_num_bytes(num_null_cols)
    IN  IF ~(num_null_cols > 0) THEN Panic
        ELSE IF 4 > inner.len THEN Panic
        ELSE IF ~(inner.len - 4 >= bit_set_size) THEN Err("InvalidBitSetBytes")
        ELSE LET nulls_bit_set ==
                     BitSet_try_from_raw(slice(inner, 4, 4 + bit_set_size), num_null_cols)[1]
             IN  Ok([form |-> "WithNulls",
                     byte_offsets |-> col_offsets(schema, nulls_bit_set, 0, 0),
                     datum_offset |-> 4 + bit_set_size])

\* ContiguousRowReader::try_new
ContiguousRowReader_try_new(inner, schema, big_endian) ==
    IF ~(inner.len >= 4) THEN Err("NumNullColsMissing")
    ELSE LET num_null_cols == from_ne_bytes(slice(inner, 0, 4), big_endian)
         IN  IF num_null_cols > 0
             THEN ContiguousRowReaderWithNulls_try_new(inner, schema, num_null_cols)
             ELSE Ok([form |-> "NoNulls", byte_offsets |-> byte_offsets(schema),
                      datum_offset |-> 4])

\* <ContiguousRowReader as ContiguousRow>::num_datum_views
num_datum_views(self) == Len(self.byte_offsets)

\* <ContiguousRowReader as ContiguousRow>::datum_view_at
ContiguousRowReader_datum_view_at(self, inner, index, big_endian) ==
    IF ~(index < Len(self.byte_offsets)) THEN Panic
    ELSE LET offset == self.byte_offsets[index + 1]
         IN  IF self.form = "WithNulls" /\ offset < 0 THEN Ok([kind |-> "Null"])
             ELSE IF self.datum_offset + offset > inner.len THEN Panic
             ELSE datum_view_at(inner, self.datum_offset + offset, big_endian)

(***************************************************************************)
(* The rows written and read back: a table schema of up to MaxColumns      *)
(* columns, each of them missing from the writer's schema, null, or a      *)
(* datum of its kind, and rows of WideColumns strings, whose encoding is   *)
(* about MAX_ROW_LEN long.                                                 *)
(***************************************************************************)
MaxColumns == 2
WideColumns == 65

RowKinds == {"UInt8", "UInt16", "Int8", "Int64", "Boolean", "String", "Varbinary"}

DatumChoices(kind) ==
    {[kind |-> "Null"]} \cup
    (CASE kind = "UInt8" -> {[kind |-> kind, v |-> 200], [kind |-> kind, v |-> 255]}
       [] kind = "UInt16" -> {[kind |-> kind, v |-> 51401]}
       [] kind = "Int8" -> {[kind |-> kind, v |-> -56]}
       [] kind = "Int64" -> {[kind |-> kind, v |-> -2]}
       [] kind = "Boolean" -> {[kind |-> kind, b |-> TRUE]}
       [] OTHER -> {[kind |-> kind, len |-> n, seed |-> 97]
                      : n \in {0, 2, MAX_STRING_LEN + 1}})

ColumnChoices == {None} \cup {Some(d) : d \in UNION {DatumChoices(k) : k \in RowKinds}}

RowSchemas == UNION { [1..n -> RowKinds] : n \in 1..MaxColumns }

RowColumns(schema) ==
    { cs \in [1..Len(schema) -> ColumnChoices] :
        \A i \in 1..Len(schema) : cs[i] = None \/ cs[i][1] \in DatumChoices(schema[i]) }

RowCases ==
    UNION { { [table_schema |-> schema, columns |-> columns] : columns \in RowColumns(schema) }
            : schema \in RowSchemas }

WideRowCases ==
    { [table_schema |-> [i \in 1..n |-> "String"],
       columns |-> [i \in 1..n |-> Some([kind |-> "String", len |-> len, seed |-> 97])]]
      : n \in {WideColumns - 1, WideColumns}, len \in {MAX_STRING_LEN - 10, MAX_STRING_LEN} }

\* the writer's row and its IndexInWriterSchema for the columns of a case
writer_columns(columns) == SelectSeq(columns, LAMBDA col : col # None)

RowContext(case, big_endian, overflow_checks, debug_assertions) ==
    [table_schema |-> case.table_schema,
     index_in_writer |->
         [i \in 1..Len(case.columns) |->
             IF case.columns[i] = None THEN None
             ELSE Some(Len(writer_columns(SubSeq(case.columns, 1, i - 1))))],
     row |-> [i \in 1..Len(writer_columns(case.columns)) |-> writer_columns(case.columns)[i][1]],
     big_endian |-> big_endian,
     overflow_checks |-> overflow_checks,
     debug_assertions |-> debug_assertions]

RowIdle ==
    /\ row_in = RowContext([table_schema |-> <<"UInt8">>,
                            columns |-> <<Some([kind |-> "UInt8", v |-> 200])>>],
                           FALSE, FALSE, FALSE)
    /\ row_out = None

RowInit ==
    /\ row_in \in { RowContext(case, big_endian, overflow_checks, debug_assertions)
                    : case \in RowCases \cup WideRowCases, big_endian \in BOOLEAN,
                      overflow_checks \in BOOLEAN, debug_assertions \in BOOLEAN }
    /\ row_out = None

\* ContiguousRowWriter::new(&mut buf, &schema, &index_in_writer).write_row(&row)
WriteRow ==
    /\ row_out = None
    /\ row_out' = Some([written |-> write_row(row_in), reader |-> None, views |-> None])
    /\ UNCHANGED <<row_in, nonRowVars>>

\* ContiguousRowReader::try_new(&buf, &schema) and datum_view_at of every
\* index below num_datum_views, as check_contiguous_row does
ReadRow ==
    /\ row_out # None
    /\ row_out[1].written.ok
    /\ row_out[1].reader = None
    /\ \E row_reader \in {ContiguousRowReader_try_new(row_out[1].written.v,
                                                  row_in.table_schema, row_in.big_endian)} :
         row_out' = Some([row_out[1] EXCEPT
                            !.reader = Some(row_reader),
                            !.views = IF ~row_reader.ok THEN None
                                      ELSE Some([i \in 1..num_datum_views(row_reader.v) |->
                                                  ContiguousRowReader_datum_view_at(
                                                      row_reader.v, row_out[1].written.v, i - 1,
                                                      row_in.big_endian)])])
    /\ UNCHANGED <<row_in, nonRowVars>>

(***************************************************************************)
(* ThreadedReader (analytic_engine/src/sst/parquet/async_reader.rs): the   *)
(* caller of read, the task it spawns and the channel between them.  An    *)
(* item of the inner stream is Ok(i) (a record batch) or Err(i), with i    *)
(* its position in the stream.                                             *)
(***************************************************************************)
DEFAULT_CHANNEL_CAP == 1024
MaxItems == 3
MaxChannelCap == 2

StreamChoices ==
    UNION { { [i \in 1..n |-> IF i \in errors THEN Err(i) ELSE Ok(i)] : errors \in SUBSET (1..n) }
            : n \in 0..MaxItems }

ChannelCapChoices == (1..MaxChannelCap) \cup {DEFAULT_CHANNEL_CAP}

\* ThreadedReader::new, over a Reader whose read fails (read_fails) or
\* returns the stream of the items
ThreadedReader_new(items, read_fails, channel_cap) ==
    [items |-> items, read_fails |-> read_fails, pulled |-> 0, channel_cap |-> channel_cap]

\* mpsc::channel with more room than asked for
mpsc_channel_roomy(buffer) ==
    [buffer |-> buffer + 1, queue |-> <<>>, rx_closed |-> FALSE]

\* mpsc::channel(self.channel_cap): the sender and the receiver share the
\* queue, its bound, and whether the receiver is closed
mpsc_channel(buffer) ==
    [buffer |-> buffer, queue |-> <<>>, rx_closed |-> FALSE]

IdleTask == [pc |-> "none", batch |-> None]
IdleCaller == [stream |-> "none", got |-> <<>>, ended |-> FALSE]
NoReaderHist == [full |-> FALSE, failed_sends |-> 0, pulled_after_failed_send |-> 0]

ThreadedIdle ==
    /\ tr_inner = ThreadedReader_new(<<>>, FALSE, DEFAULT_CHANNEL_CAP)
    /\ tr_task = IdleTask
    /\ tr_chan = None
    /\ tr_caller = IdleCaller
    /\ tr_hist = NoReaderHist

ThreadedInit ==
    /\ tr_inner \in { ThreadedReader_new(items, read_fails, channel_cap)
                      : items \in StreamChoices, read_fails \in BOOLEAN,
                        channel_cap \in ChannelCapChoices }
    /\ tr_task = IdleTask
    /\ tr_chan = None
    /\ tr_caller = IdleCaller
    /\ tr_hist = NoReaderHist

\* <ThreadedReader as SstReader>::read with read_record_batches: the channel
\* is made, and when self.inner.read() fails the error is returned and the
\* channel dropped; otherwise the task is spawned and the caller gets the
\* RecordBatchReceiver
ThreadedRead ==
    /\ tr_caller.stream = "none"
    /\ IF tr_inner.read_fails
       THEN /\ tr_caller' = [tr_caller EXCEPT !.stream = "error"]
            /\ UNCHANGED <<tr_task, tr_chan>>
       ELSE /\ tr_chan' = Some(mpsc_channel(tr_inner.channel_cap))
            /\ tr_task' = [pc |-> "next", batch |-> None]
            /\ tr_caller' = [tr_caller EXCEPT !.stream = "held"]
    /\ UNCHANGED <<tr_inner, tr_hist, nonThreadedVars>>

\* the task at `while let Some(batch) = stream.next().await`: the next item
\* of the inner stream, or the end of the loop and of the task, which drops
\* the sender
TaskNext ==
    /\ tr_task.pc = "next"
    /\ IF tr_inner.pulled < Len(tr_inner.items)
       THEN /\ tr_task' = [pc |-> "send", batch |-> Some(tr_inner.items[tr_inner.pulled + 1])]
            /\ tr_inner' = [tr_inner EXCEPT !.pulled = @ + 1]
            /\ tr_hist' = [tr_hist EXCEPT !.pulled_after_failed_send =
                             IF tr_hist.failed_sends > 0 THEN @ + 1 ELSE @]
       ELSE /\ tr_task' = [pc |-> "done", batch |-> None]
            /\ UNCHANGED <<tr_inner, tr_hist>>
    /\ UNCHANGED <<tr_chan, tr_caller, nonThreadedVars>>

\* the task at `tx.send(batch).await`: an error when the receiver is gone,
\* which is logged, and the loop goes on; the batch is queued when the
\* channel has room; the send waits otherwise
TaskSend ==
    /\ tr_task.pc = "send"
    /\ IF tr_chan[1].rx_closed
       THEN /\ tr_hist' = [tr_hist EXCEPT !.failed_sends = @ + 1]
            /\ UNCHANGED tr_chan
       ELSE /\ Len(tr_chan[1].queue) < tr_chan[1].buffer
            /\ tr_chan' = Some([tr_chan[1] EXCEPT !.queue = Append(@, tr_task.batch[1])])
            /\ tr_hist' = [tr_hist EXCEPT !.full =
                             @ \/ Len(tr_chan[1].queue) + 1 = tr_inner.channel_cap]
    /\ tr_task' = [pc |-> "next", batch |-> None]
    /\ UNCHANGED <<tr_inner, tr_caller, nonThreadedVars>>

\* RecordBatchReceiver::poll_next, when it is ready: the oldest item of the
\* channel, or None once the channel is empty and the sender dropped
PollNext ==
    /\ tr_caller.stream = "held"
    /\ ~tr_caller.ended
    /\ IF tr_chan[1].queue # <<>>
       THEN /\ tr_caller' = [tr_caller EXCEPT !.got = Append(@, Head(tr_chan[1].queue))]
            /\ tr_chan' = Some([tr_chan[1] EXCEPT !.queue = Tail(@)])
       ELSE /\ tr_task.pc = "done"
            /\ tr_caller' = [tr_caller EXCEPT !.ended = TRUE]
            /\ UNCHANGED tr_chan
    /\ UNCHANGED <<tr_inner, tr_task, tr_hist, nonThreadedVars>>

\* the caller drops the stream: the receiver closes and what the channel
\* holds is dropped with it
DropStream ==
    /\ tr_caller.stream = "held"
    /\ tr_caller' = [tr_caller EXCEPT !.stream = "dropped"]
    /\ tr_chan' = Some([tr_chan[1] EXCEPT !.queue = <<>>, !.rx_closed = TRUE])
    /\ UNCHANGED <<tr_inner, tr_task, tr_hist, nonThreadedVars>>

(***************************************************************************)
(* The read of the meta data and of the bytes of an SST                    *)
(* (Reader::read_sst_meta and CachableParquetFileReader::get_bytes in      *)
(* analytic_engine/src/sst/parquet/async_reader.rs) over a MemCacheStore   *)
(* as the storage.  The meta cache and the data cache map a key to a       *)
(* value; they are below their capacity, so a put evicts nothing.  The     *)
(* callers run their reads on threads of their own: a step of a read is    *)
(* what it does under one lock (a lookup or an insert in the cache of the  *)
(* store, a lookup or a put in the meta cache or the data cache) or one    *)
(* answer of the underlying store.                                         *)
(***************************************************************************)
SstPaths == {"1.sst", "2.sst"}
SstFooters == {"no_kv_meta", "empty_kv_meta", "undecodable", "good"}
SstCallers == {1, 2}
SstMemCap == 13
FooterRange == <<10, 15>>
DataRanges == {<<0, 5>>}

SstStoreKeys == {cache_key(path, range) : path \in SstPaths, range \in DataRanges \cup {FooterRange}}
SstHashes == [key \in SstStoreKeys |-> 0]

\* MetaCache::get / put and DataCache::get / put on Option<cache>: None
\* without a cache, Some(the entries) with one
LruCache_get(lru, key) ==
    IF \E e \in lru : e.key = key
    THEN Some((CHOOSE e \in lru : e.key = key).value)
    ELSE None

LruCache_put(lru, key, value) ==
    {e \in lru : e.key # key} \cup {[key |-> key, value |-> value]}

\* MemCacheStore::get_range up to the await of the underlying store: the
\* cached bytes or None, and the cache after the lookup
MemCacheStore_get_range_cached(store, location, range) ==
    MemCache_get(store, SstHashes, cache_key(location, range))

\* MemCacheStore::get_range from the await of the underlying store on: the
\* bytes or the error, and the cache after it; failed: the underlying store
\* fails
MemCacheStore_get_range(store, location, range, failed) ==
    IF failed THEN [result |-> Err("ObjectStore"), store |-> store]
    ELSE [result |-> Ok(object_bytes(location, range)),
          store |-> MemCache_insert(store, SstHashes, cache_key(location, range),
                                    object_bytes(location, range))]

\* fetch_parquet_metadata: the footer of the file out of the bytes that
\* get_range returned for it
fetch_parquet_metadata(fetched, footer) ==
    IF ~fetched.ok THEN fetched ELSE Ok(footer)

\* Reader::load_meta_data_from_storage, from the end of its await on
load_meta_data_from_storage(fetched, footer) ==
    LET metadata == fetch_parquet_metadata(fetched, footer)
    IN  IF ~metadata.ok THEN Err("DecodeSstMeta") ELSE metadata

\* Reader::read_sst_meta up to its first await: the meta data in the cache
read_sst_meta_cached(path, meta_cache) ==
    IF meta_cache = None THEN None ELSE LruCache_get(meta_cache[1], path)

\* Reader::read_sst_meta that puts what it has loaded into the cache before
\* it looks at it
read_sst_meta_put_first(path, meta_cache, loaded) ==
    [result |-> IF ~loaded.ok THEN loaded
                ELSE IF loaded.v # "good" THEN Err("DecodeSstMeta")
                ELSE Ok([parquet |-> loaded.v, custom |-> path]),
     meta_cache |-> IF meta_cache = None \/ ~loaded.ok THEN meta_cache
                    ELSE Some(LruCache_put(meta_cache[1], path,
                                           [parquet |-> loaded.v, custom |-> path]))]

\* Reader::read_sst_meta from the end of the await of
\* load_meta_data_from_storage on: the result and the meta cache after it
read_sst_meta(path, meta_cache, loaded) ==
    IF ~loaded.ok THEN [result |-> loaded, meta_cache |-> meta_cache]
    ELSE IF loaded.v = "no_kv_meta"
    THEN [result |-> Err("SstMetaNotFound"), meta_cache |-> meta_cache]
    ELSE IF loaded.v = "empty_kv_meta"
    THEN [result |-> Err("EmptySstMeta"), meta_cache |-> meta_cache]
    ELSE IF loaded.v = "undecodable"
    THEN [result |-> Err("DecodeSstMeta"), meta_cache |-> meta_cache]
    ELSE LET metadata == [parquet |-> loaded.v, custom |-> path]
         IN  [result |-> Ok(metadata),
              meta_cache |-> IF meta_cache = None THEN None
                             ELSE Some(LruCache_put(meta_cache[1], path, metadata))]

\* CachableParquetFileReader::cache_key: "{name}_{start}_{end}"
data_cache_key(name, start, end) == [name |-> name, start |-> start, end |-> end]

\* <CachableParquetFileReader as AsyncFileReader>::get_bytes up to the
\* future it returns: the bytes in the data cache
get_bytes_cached(path, range, data_cache) ==
    IF data_cache = None THEN None
    ELSE LruCache_get(data_cache[1], data_cache_key(path, range[1], range[2]))

\* get_bytes from the end of get_range on (map_ok, map_err): the result and
\* the data cache after it
get_bytes(path, range, data_cache, fetched) ==
    IF fetched.ok
    THEN [result |-> fetched,
          data_cache |-> IF data_cache = None THEN None
                         ELSE Some(LruCache_put(data_cache[1],
                                                data_cache_key(path, range[1], range[2]),
                                                fetched.v))]
    ELSE [result |-> Err("ParquetError"), data_cache |-> data_cache]

\* a read of a caller: where it is, what it reads, whether the store failed
\* it, what get_range of the storage returned to it, its result, and
\* whether it put an entry into the meta cache or the data cache
IdleSstCall ==
    [pc |-> "idle", op |-> "none", path |-> "", range |-> <<0, 0>>, failure |-> "none",
     fetched |-> None, result |-> None, put |-> FALSE]

SstIdle ==
    /\ sst_files = [path \in SstPaths |-> "good"]
    /\ sst_store = None
    /\ sst_meta_cache = None
    /\ sst_data_cache = None
    /\ sst_call = None

\* SstReaderOptions: with or without a meta cache and a data cache
SstInit ==
    /\ sst_files \in {files \in [SstPaths -> SstFooters] : files["2.sst"] = "good"}
    /\ sst_store = Some(MemCacheStore_new(0, SstMemCap, FALSE).v)
    /\ sst_meta_cache \in {None, Some({})}
    /\ sst_data_cache \in {None, Some({})}
    /\ sst_call = [c \in SstCallers |-> IdleSstCall]

\* Reader::read_sst_meta(storage, path, meta_cache) up to its first await:
\* the meta data of the cache is returned, or the head of the object asked
ReadSstMeta(c, path) ==
    /\ sst_store # None
    /\ sst_call[c].pc = "idle"
    /\ \E cached \in {read_sst_meta_cached(path, sst_meta_cache)} :
         sst_call' = [sst_call EXCEPT ![c] =
                         IF cached # None
                         THEN [IdleSstCall EXCEPT !.op = "read_sst_meta", !.path = path,
                                                  !.result = Some(Ok(cached[1]))]
                         ELSE [IdleSstCall EXCEPT !.op = "read_sst_meta", !.path = path,
                                                  !.range = FooterRange, !.pc = "head"]]
    /\ UNCHANGED <<sst_files, sst_store, sst_meta_cache, sst_data_cache, nonSstVars>>

\* the await of storage.head(path) ends; failed: with an error, which
\* read_sst_meta returns as ObjectStoreError
SstHead(c, failed) ==
    /\ sst_call[c].pc = "head"
    /\ sst_call' = [sst_call EXCEPT ![c] =
                       IF failed
                       THEN [@ EXCEPT !.pc = "idle", !.failure = "head",
                                      !.result = Some(Err("ObjectStoreError"))]
                       ELSE [@ EXCEPT !.pc = "get_range"]]
    /\ UNCHANGED <<sst_files, sst_store, sst_meta_cache, sst_data_cache, nonSstVars>>

\* CachableParquetFileReader::get_bytes(range) up to the future it returns:
\* the bytes of the data cache are returned, or get_range of the storage is
\* called
GetBytes(c, path, range) ==
    /\ sst_store # None
    /\ sst_call[c].pc = "idle"
    /\ \E cached \in {get_bytes_cached(path, range, sst_data_cache)} :
         sst_call' = [sst_call EXCEPT ![c] =
                         IF cached # None
                         THEN [IdleSstCall EXCEPT !.op = "get_bytes", !.path = path,
                                                  !.range = range,
                                                  !.result = Some(Ok(cached[1]))]
                         ELSE [IdleSstCall EXCEPT !.op = "get_bytes", !.path = path,
                                                  !.range = range, !.pc = "get_range"]]
    /\ UNCHANGED <<sst_files, sst_store, sst_meta_cache, sst_data_cache, nonSstVars>>

\* MemCacheStore::get_range of the read up to the await of the underlying
\* store (self.cache.get under the lock of the partition): cached bytes are
\* what get_range returns, else the underlying store is asked
SstGetRangeCached(c) ==
    /\ sst_call[c].pc = "get_range"
    /\ \E found \in {MemCacheStore_get_range_cached(sst_store[1], sst_call[c].path,
                                                    sst_call[c].range)} :
         /\ sst_store' = Some(found.cache)
         /\ sst_call' = [sst_call EXCEPT ![c] =
                            IF found.value # None
                            THEN [@ EXCEPT !.pc = "fetched",
                                           !.fetched = Some(Ok(found.value[1]))]
                            ELSE [@ EXCEPT !.pc = "underlying"]]
    /\ UNCHANGED <<sst_files, sst_meta_cache, sst_data_cache, nonSstVars>>

\* the await of the underlying store's get_range ends and the bytes go into
\* the cache of the store (self.cache.insert under the lock of the
\* partition), which ends MemCacheStore::get_range; failed: the underlying
\* store returns an error and nothing is inserted
SstGetRangeFetched(c, failed) ==
    /\ sst_call[c].pc = "underlying"
    /\ \E out \in {MemCacheStore_get_range(sst_store[1], sst_call[c].path,
                                           sst_call[c].range, failed)} :
         /\ sst_store' = Some(out.store)
         /\ sst_call' = [sst_call EXCEPT ![c] =
                            [@ EXCEPT !.pc = "fetched",
                                      !.failure = IF failed THEN "fetch" ELSE "none",
                                      !.fetched = Some(out.result)]]
    /\ UNCHANGED <<sst_files, sst_meta_cache, sst_data_cache, nonSstVars>>

\* the read goes on with what get_range of the storage returned to it and
\* ends: the rest of read_sst_meta (the footer is looked at, the meta data
\* put into the meta cache) or of get_bytes (map_ok puts the bytes into the
\* data cache, map_err makes the error)
SstReadReturn(c) ==
    /\ sst_call[c].pc = "fetched"
    /\ IF sst_call[c].op = "read_sst_meta"
       THEN \E out \in {read_sst_meta(sst_call[c].path, sst_meta_cache,
                                      load_meta_data_from_storage(
                                          sst_call[c].fetched[1],
                                          sst_files[sst_call[c].path]))} :
              /\ sst_meta_cache' = out.meta_cache
              /\ sst_call' = [sst_call EXCEPT ![c] =
                                 [@ EXCEPT !.pc = "idle", !.result = Some(out.result),
                                           !.put = out.meta_cache # sst_meta_cache]]
              /\ UNCHANGED sst_data_cache
       ELSE \E out \in {get_bytes(sst_call[c].path, sst_call[c].range, sst_data_cache,
                                  sst_call[c].fetched[1])} :
              /\ sst_data_cache' = out.data_cache
              /\ sst_call' = [sst_call EXCEPT ![c] =
                                 [@ EXCEPT !.pc = "idle", !.result = Some(out.result),
                                           !.put = out.data_cache # sst_data_cache]]
              /\ UNCHANGED sst_meta_cache
    /\ UNCHANGED <<sst_files, sst_store, nonSstVars>>

(***************************************************************************)
(* BatchLogIteratorAdapter (wal/src/manager.rs): batches of log entries    *)
(* out of a blocking or an async iterator.  The log is a sequence of raw   *)
(* entries; an iterator over it is its kind, its position in the log and   *)
(* the position at which its next_log_entry fails (0: never).  Two         *)
(* adapters read the same log, each through an iterator of its own.  A     *)
(* call of next_log_entries is a future: it runs to its next await in one  *)
(* step, and its caller may drop it at an await.                           *)
(***************************************************************************)
MaxLogEntries == 2
MaxBatchSize == 2
MaxCalls == 3

AdapterIds == {1, 2}

IteratorKinds == {"Blocking", "Async"}
RawPayloads == {"raw", "corrupt"}

\* the raw entries of the log: increasing sequence numbers with gaps
RawEntryChoices ==
    UNION {[1..n -> RawPayloads] : n \in 0..MaxLogEntries}

raw_log_entries(payloads) ==
    [i \in 1..Len(payloads) |-> [sequence |-> 3 * i + 1, payload |-> <<payloads[i], i>>]]

\* PayloadDecoder::decode
PayloadDecoder_decode(raw_payload) ==
    IF raw_payload[1] = "corrupt" THEN Err("Decoding")
    ELSE Ok([decoded |-> raw_payload[2]])

\* BlockingLogIterator::next_log_entry / AsyncLogIterator::next_log_entry:
\* the entry or None, and the iterator after it
iter_next_log_entry(iter, log) ==
    IF iter.fail_at = iter.pos THEN [result |-> Err("Read"), iter |-> iter]
    ELSE IF iter.pos > Len(log) THEN [result |-> Ok(None), iter |-> iter]
    ELSE [result |-> Ok(Some(log[iter.pos])),
          iter |-> [iter EXCEPT !.pos = iter.pos + 1]]

\* the loop `for _ in 0..batch_size` in the task of simulated_async_next,
\* with `remaining` rounds to go
RECURSIVE fetch_batch(_, _, _, _)
fetch_batch(remaining, iter, buffer, log) ==
    IF remaining = 0 THEN Ok([log_entries |-> buffer, iter |-> Some(iter)])
    ELSE CHOOSE out \in
           { IF ~next.result.ok THEN Err(next.result.err)
             ELSE IF next.result.v = None THEN Ok([log_entries |-> buffer, iter |-> None])
             ELSE CHOOSE res \in
                    { IF ~payload.ok THEN Err(payload.err)
                      ELSE fetch_batch(remaining - 1, next.iter,
                                       Append(buffer, [sequence |-> next.result.v[1].sequence,
                                                       payload |-> payload.v]), log)
                      : payload \in {PayloadDecoder_decode(next.result.v[1].payload)} } : TRUE
             : next \in {iter_next_log_entry(iter, log)} } : TRUE

\* BatchLogIteratorAdapter::simulated_async_next: what its await yields;
\* runtime_fails: the task spawned on the runtime does not complete
simulated_async_next(self, blocking_iter, buffer, log, runtime_fails) ==
    IF runtime_fails THEN Err("RuntimeExec")
    ELSE fetch_batch(self.batch_size, blocking_iter, <<>>, log)

\* one round of the loop of BatchLogIteratorAdapter::async_next, from the
\* await of next_log_entry on: the error, or the buffer and the iterator
\* after it (None: the iterator returned no entry)
async_next_round(async_iter, buffer, log) ==
    CHOOSE out \in
      { IF ~next.result.ok THEN Err(next.result.err)
        ELSE IF next.result.v = None THEN Ok([log_entries |-> buffer, iter |-> None])
        ELSE CHOOSE res \in
               { IF ~payload.ok THEN Err(payload.err)
                 ELSE Ok([log_entries |-> Append(buffer,
                                                 [sequence |-> next.result.v[1].sequence,
                                                  payload |-> payload.v]),
                          iter |-> Some(next.iter)])
                 : payload \in {PayloadDecoder_decode(next.result.v[1].payload)} } : TRUE
        : next \in {iter_next_log_entry(async_iter, log)} } : TRUE

\* BatchLogIteratorAdapter::new
BatchLogIteratorAdapter_new(inner_iterator, batch_size) ==
    [inner_iterator |-> Some(inner_iterator), batch_size |-> batch_size]

\* an adapter that keeps its iterator while a call runs
inner_iterator_kept(self) == self

\* self.inner_iterator.take() of next_log_entries: the adapter after it
inner_iterator_take(self) == [self EXCEPT !.inner_iterator = None]

\* BatchLogIteratorAdapter::next_log_entries from the end of its await on:
\* the `?`, the iterator put back, the batch returned
next_log_entries_return(self, fetched) ==
    IF ~fetched.ok THEN [result |-> fetched, self |-> self]
    ELSE [result |-> Ok(fetched.v.log_entries),
          self |-> [self EXCEPT !.inner_iterator = fetched.v.iter]]

\* a call of next_log_entries that is not running
IdleBatchCall == [pc |-> "idle", iter |-> None, buffer |-> <<>>, rounds |-> 0, fetched |-> None]

\* the history of an adapter: the log it was made over, the entries its
\* calls returned, its latest call (none, running, returned, dropped), the
\* iterator that call took, its result
NoBatchHist ==
    [source |-> <<>>, delivered |-> <<>>, latest |-> "none", last |-> None, taken |-> None,
     errored |-> FALSE, dropped |-> FALSE, empty_returned |-> FALSE,
     after_empty |-> FALSE, after_error |-> FALSE, runtime_failed |-> FALSE, calls |-> 0]

CallBegun(h, taken) ==
    [h EXCEPT !.latest = "running", !.taken = taken, !.after_empty = h.empty_returned,
              !.after_error = h.errored, !.runtime_failed = FALSE, !.calls = @ + 1]

CallReturned(h, result) ==
    [h EXCEPT !.latest = "returned", !.last = Some(result),
              !.delivered = IF result.ok THEN @ \o result.v ELSE @,
              !.errored = @ \/ ~result.ok,
              !.empty_returned = @ \/ (result.ok /\ result.v = <<>>)]

BatchIdle ==
    /\ batch_log = <<>>
    /\ adapter = None
    /\ batch_call = None
    /\ batch_hist = None

\* WalManager::read_batch / scan, twice: two adapters over the log, each
\* over a fresh iterator
BatchInit ==
    \E kind \in IteratorKinds, payloads \in RawEntryChoices, batch_size \in 0..MaxBatchSize :
      \E fail_at \in [AdapterIds -> 0..(Len(payloads) + 1)] :
          /\ batch_log = raw_log_entries(payloads)
          /\ adapter = [a \in AdapterIds |->
                          BatchLogIteratorAdapter_new([kind |-> kind, pos |-> 1,
                                                       fail_at |-> fail_at[a]], batch_size)]
          /\ batch_call = [a \in AdapterIds |-> IdleBatchCall]
          /\ batch_hist = [a \in AdapterIds |->
                             [NoBatchHist EXCEPT !.source = raw_log_entries(payloads)]]

\* the buffers a caller passes: a new one, or one that still holds entries
BufferChoices == {<<>>, <<[sequence |-> 1, payload |-> [decoded |-> 0]]>>}

\* BatchLogIteratorAdapter::next_log_entries(decoder, buffer) up to its
\* first await: without an iterator it returns an empty batch; else it
\* takes the iterator and spawns the task of the blocking iterator, or
\* enters the loop over the async one, which it leaves at once when
\* batch_size is 0
CallNextLogEntries(a, buffer) ==
    /\ batch_call[a].pc = "idle"
    /\ batch_hist[a].calls < MaxCalls
    /\ LET self == adapter[a]
           begun == CallBegun(batch_hist[a], self.inner_iterator)
       IN  IF self.inner_iterator = None
           THEN /\ batch_hist' = [batch_hist EXCEPT ![a] = CallReturned(begun, Ok(<<>>))]
                /\ UNCHANGED <<adapter, batch_call>>
           ELSE IF self.inner_iterator[1].kind = "Blocking"
           THEN /\ adapter' = [adapter EXCEPT ![a] = inner_iterator_take(self)]
                /\ batch_call' = [batch_call EXCEPT ![a] =
                                     [IdleBatchCall EXCEPT !.pc = "spawned",
                                                             !.iter = self.inner_iterator,
                                                             !.buffer = buffer]]
                /\ batch_hist' = [batch_hist EXCEPT ![a] = begun]
           ELSE IF self.batch_size = 0
           THEN \E out \in {next_log_entries_return(
                                inner_iterator_take(self),
                                Ok([log_entries |-> <<>>, iter |-> self.inner_iterator]))} :
                  /\ adapter' = [adapter EXCEPT ![a] = out.self]
                  /\ batch_hist' = [batch_hist EXCEPT ![a] = CallReturned(begun, out.result)]
                  /\ UNCHANGED batch_call
           ELSE /\ adapter' = [adapter EXCEPT ![a] = inner_iterator_take(self)]
                /\ batch_call' = [batch_call EXCEPT ![a] =
                                     [IdleBatchCall EXCEPT !.pc = "polling",
                                                             !.iter = self.inner_iterator,
                                                             !.rounds = self.batch_size]]
                /\ batch_hist' = [batch_hist EXCEPT ![a] = begun]
    /\ UNCHANGED <<batch_log, nonBatchVars>>

\* the task that simulated_async_next spawned with spawn_blocking runs, or
\* fails to complete
BlockingTask(a, runtime_fails) ==
    /\ batch_call[a].pc = "spawned"
    /\ batch_call' = [batch_call EXCEPT ![a] =
                         [@ EXCEPT !.pc = "finished", !.iter = None, !.buffer = <<>>,
                                   !.fetched = Some(simulated_async_next(
                                                        adapter[a], batch_call[a].iter[1],
                                                        batch_call[a].buffer, batch_log,
                                                        runtime_fails))]]
    /\ batch_hist' = [batch_hist EXCEPT ![a].runtime_failed = runtime_fails]
    /\ UNCHANGED <<adapter, batch_log, nonBatchVars>>

\* the await of the task ends and next_log_entries returns
CompleteNextLogEntries(a) ==
    /\ batch_call[a].pc = "finished"
    /\ \E out \in {next_log_entries_return(adapter[a], batch_call[a].fetched[1])} :
         /\ adapter' = [adapter EXCEPT ![a] = out.self]
         /\ batch_hist' = [batch_hist EXCEPT ![a] = CallReturned(@, out.result)]
    /\ batch_call' = [batch_call EXCEPT ![a] = IdleBatchCall]
    /\ UNCHANGED <<batch_log, nonBatchVars>>

\* the await of next_log_entry in async_next ends: one round of the loop,
\* and the return of next_log_entries when it was the last one
AsyncNextLogEntry(a) ==
    /\ batch_call[a].pc = "polling"
    /\ \E round \in {async_next_round(batch_call[a].iter[1], batch_call[a].buffer,
                                      batch_log)} :
         IF round.ok /\ round.v.iter # None /\ batch_call[a].rounds > 1
         THEN /\ batch_call' = [batch_call EXCEPT ![a] =
                                   [@ EXCEPT !.iter = round.v.iter,
                                             !.buffer = round.v.log_entries,
                                             !.rounds = @ - 1]]
              /\ UNCHANGED <<adapter, batch_hist>>
         ELSE \E out \in {next_log_entries_return(adapter[a], round)} :
                /\ adapter' = [adapter EXCEPT ![a] = out.self]
                /\ batch_hist' = [batch_hist EXCEPT ![a] = CallReturned(@, out.result)]
                /\ batch_call' = [batch_call EXCEPT ![a] = IdleBatchCall]
    /\ UNCHANGED <<batch_log, nonBatchVars>>

\* the caller drops the future of next_log_entries at an await
DropCall(a) ==
    /\ batch_call[a].pc \in {"spawned", "finished", "polling"}
    /\ batch_call' = [batch_call EXCEPT ![a] = IdleBatchCall]
    /\ batch_hist' = [batch_hist EXCEPT ![a] = [@ EXCEPT !.latest = "dropped",
                                                           !.dropped = TRUE]]
    /\ UNCHANGED <<adapter, batch_log, nonBatchVars>>

(***************************************************************************)
(* IntegrateLogCollector on its own: the parts of logs are handed to       *)
(* collect one after the other, and take_log takes what was collected.     *)
(***************************************************************************)
MaxCollected == 4

PartKeys ==
    {CommonLogKey_part(0, table_id, sequence_num, remaining) :
        table_id \in {0, 1}, sequence_num \in {1, 2},
        remaining \in {None, Some(0), Some(2)}}

PartPayloads == {<<0>>, <<9, 9>>}

\* IntegrateLogCollector::take_log
take_log(c) ==
    [taken |-> <<c.log_key, c.log_payload>>, c |-> IntegrateLogCollector_default]

CollectIdle ==
    /\ collector = IntegrateLogCollector_default
    /\ collect_hist = None

\* IntegrateLogCollector::default()
CollectInit == CollectIdle

\* collector.collect(new_log_key, new_log_payload)
Collect(new_log_key, new_log_payload) ==
    /\ Len(collector.log_payload) <= MaxCollected
    /\ collector' = collect(collector, new_log_key, new_log_payload)
    /\ collect_hist' = Some([op |-> "collect", before |-> collector,
                             key |-> new_log_key, payload |-> new_log_payload])
    /\ UNCHANGED nonCollectVars

\* collector.take_log()
TakeLog ==
    /\ collector' = take_log(collector).c
    /\ collect_hist' = Some([op |-> "take_log", before |-> collector,
                             key |-> CommonLogKey_new(0, 0, 0), payload |-> <<>>])
    /\ UNCHANGED nonCollectVars

(***************************************************************************)
(* TableUnitWriter::alloc_sequence_num on the last sequence of one table   *)
(* unit: the ranges of sequence numbers are allocated one after the other. *)
(***************************************************************************)
MaxAllocNumber == 7

NoAlloc == [last_sequence |-> 0, before |-> 0, number |-> 0, result |-> None]

AllocIdle == seq_alloc = NoAlloc

\* TableUnitState of a new table unit: last_sequence is MIN_SEQUENCE_NUMBER
AllocInit == AllocIdle

\* alloc_sequence_num(table_unit_state, number)
AllocSequenceNum(number) ==
    /\ \E out \in {alloc_sequence_num(seq_alloc.last_sequence, number)} :
         seq_alloc' = [last_sequence |-> IF out.ok THEN out.v.last_sequence
                                         ELSE seq_alloc.last_sequence,
                       before |-> seq_alloc.last_sequence,
                       number |-> number,
                       result |-> Some(IF out.ok THEN Ok(out.v.next_seq) ELSE out)]
    /\ UNCHANGED nonAllocVars

(***************************************************************************)
(* TableState (table_engine/src/engine.rs) of a few tables.                *)
(***************************************************************************)
MaxStateTables == 3

TableStates == {"Stable", "Dropping", "Dropped"}

\* TableState::validate that lets a table that is being dropped go back
validate_with_undo(self, to) ==
    CASE self = "Stable" -> to \in {"Stable", "Dropping"}
      [] self = "Dropping" -> to \in {"Dropped", "Stable"}
      [] self = "Dropped" -> FALSE

\* TableState::validate
validate(self, to) ==
    CASE self = "Stable" -> to \in {"Stable", "Dropping"}
      [] self = "Dropping" -> to \in {"Dropped"}
      [] self = "Dropped" -> FALSE

\* TableState::try_transit: the result and the state after it
try_transit(self, to) ==
    IF ~validate(self, to)
    THEN [result |-> Err("InvalidTableStateTransition"), self |-> self]
    ELSE [result |-> Ok(<<>>), self |-> to]

TStateIdle ==
    /\ table_states = [t \in 1..MaxStateTables |-> "Stable"]
    /\ transit_hist = None

\* a table is Stable when it is created
TStateInit == TStateIdle

\* state.try_transit(to) on the state of table t
TryTransit(t, to) ==
    /\ \E out \in {try_transit(table_states[t], to)} :
         /\ table_states' = [table_states EXCEPT ![t] = out.self]
         /\ transit_hist' = Some([table |-> t, from |-> table_states[t], to |-> to,
                                  result |-> out.result])
    /\ UNCHANGED nonTStateVars

(***************************************************************************)
(* TableUnit::clean_deleted_logs, step by step: it reads start_sequence,   *)
(* then scans bucket after bucket and deletes the keys of the scan in      *)
(* write batches, while write_log and delete_entries_up_to go on.          *)
(***************************************************************************)
MaxCleanBatchSize == 2

\* the keys of a set, in the order of the scan
RECURSIVE KeysInOrder(_)
KeysInOrder(keys) ==
    IF keys = {} THEN <<>>
    ELSE LET first == FirstKey(keys)[1]
         IN  <<first>> \o KeysInOrder(keys \ {first})

\* the scan of clean_deleted_logs that includes the key of start_sequence
clean_scan_keys_inclusive(table, region_id, table_id, start_seq) ==
    {r.key : r \in {x \in table :
        /\ ~EncodedKeyLess(x.key, CommonLogKey_new(region_id, table_id, MIN_SEQUENCE_NUMBER))
        /\ ~EncodedKeyLess(CommonLogKey_new(region_id, table_id, start_seq), x.key)}}

\* the keys of the scan of clean_deleted_logs: from the key of
\* MIN_SEQUENCE_NUMBER, included, to the key of start_sequence, excluded
clean_scan_keys(table, region_id, table_id, start_seq) ==
    {r.key : r \in {x \in table :
        /\ ~EncodedKeyLess(x.key, CommonLogKey_new(region_id, table_id, MIN_SEQUENCE_NUMBER))
        /\ EncodedKeyLess(x.key, CommonLogKey_new(region_id, table_id, start_seq))}}

\* the write batches of clean_logs_from_iter over the keys of a valid
\* iterator: one whenever batch_size keys are gathered, and one, empty or
\* not, when the iterator has no next key
RECURSIVE clean_write_batches(_, _, _)
clean_write_batches(keys, write_batch, batch_size) ==
    LET gathered == Append(write_batch, Head(keys))
        full == Len(gathered) >= batch_size
        rest == IF full THEN <<>> ELSE gathered
    IN  (IF full THEN <<gathered>> ELSE <<>>)
        \o (IF Len(keys) = 1 THEN <<rest>>
            ELSE clean_write_batches(Tail(keys), rest, batch_size))

CleanIdle == cleaner = IdleCleaner

\* clean_deleted_logs(table_kv, ctx, buckets): the bounds of the scan
CleanStart ==
    /\ cleaner.pc = "idle"
    /\ cleaner' = [pc |-> "scan", start |-> start_sequence, buckets |-> Len(kv),
                   bucket |-> 1, batch_size |-> MaxCleanBatchSize, batches |-> <<>>,
                   total_deleted |-> 0]
    /\ UNCHANGED <<walVars, nonCleanVars>>

\* the scan of the next bucket; scanned: table_kv.scan returns an iterator,
\* and clean_logs_from_iter begins on it with its total_deleted at 0
CleanScan(scanned) ==
    /\ cleaner.pc = "scan"
    /\ IF cleaner.bucket > cleaner.buckets
       THEN cleaner' = [cleaner EXCEPT !.pc = "done"]
       ELSE IF ~scanned THEN cleaner' = [cleaner EXCEPT !.pc = "error"]
       ELSE \E keys \in {clean_scan_keys(kv[cleaner.bucket], Location.region_id,
                                         Location.table_id, cleaner.start)} :
              IF keys = {}
              THEN cleaner' = [cleaner EXCEPT !.bucket = @ + 1]
              ELSE cleaner' = [cleaner EXCEPT
                                 !.pc = "write",
                                 !.total_deleted = 0,
                                 !.batches = clean_write_batches(KeysInOrder(keys), <<>>,
                                                                 cleaner.batch_size)]
    /\ UNCHANGED <<walVars, nonCleanVars>>

\* What clean_logs_from_iter comes to on its way to its next write: the
\* write deletes the keys of the write batch, the write fails (Delete), or
\* a call of iter.next() before it fails (Scan).
CleanOutcomes == {"Ok", "Delete", "Scan"}

\* The calls of iter.next() between the latest write of clean_logs_from_iter
\* (or its beginning) and its next write: a full write batch is written
\* before iter.next() is called on its last key, the last write batch after
\* iter.next() returned false.
next_calls_before_write(batches, total_deleted) ==
    IF Len(batches) = 1 THEN Len(Head(batches)) + (IF total_deleted = 0 THEN 0 ELSE 1)
    ELSE IF total_deleted = 0 THEN Len(Head(batches)) - 1
    ELSE Len(Head(batches))

\* clean_logs_from_iter up to and with its next table_kv.write; after the
\* write total_deleted counts the keys of the bucket gathered so far, and
\* after the last write of the bucket clean_deleted_logs goes on to the next
\* bucket.  An error ends clean_deleted_logs.
CleanWrite(outcome) ==
    /\ cleaner.pc = "write"
    /\ outcome = "Scan" =>
         next_calls_before_write(cleaner.batches, cleaner.total_deleted) >= 1
    /\ IF outcome # "Ok"
       THEN /\ cleaner' = [cleaner EXCEPT !.pc = "error"]
            /\ UNCHANGED kv
       ELSE \E wb \in {{Head(cleaner.batches)[i] : i \in 1..Len(Head(cleaner.batches))}} :
              /\ kv' = [kv EXCEPT ![cleaner.bucket] = {r \in @ : r.key \notin wb}]
              /\ cleaner' = [cleaner EXCEPT
                               !.total_deleted = IF Len(cleaner.batches) = 1 THEN 0
                                                 ELSE @ + Cardinality(wb),
                               !.batches = Tail(@),
                               !.pc = IF Len(cleaner.batches) = 1 THEN "scan" ELSE "write",
                               !.bucket = IF Len(cleaner.batches) = 1 THEN @ + 1 ELSE @]
    /\ event' = None
    /\ reader' = ReaderAside
    /\ UNCHANGED <<meta, start_sequence, last_sequence, writer, call, hist, nonCleanVars>>
\* Several callers of write_log and delete_entries_up_to on one table unit.
EngineIdle == WalInit /\ EncIdle /\ OpenIdle /\ CacheIdle
FirstUnitsIdle == KeyIdle /\ RowIdle /\ ThreadedIdle /\ SstIdle /\ BatchIdle
PartsIdle == CollectIdle /\ AllocIdle /\ TStateIdle /\ CleanIdle
UnitsIdle == FirstUnitsIdle /\ PartsIdle

Init == EngineIdle /\ UnitsIdle

\* The store before the first open_or_create of the table unit.
ColdInit == WalColdInit /\ EncIdle /\ OpenIdle /\ CacheIdle /\ UnitsIdle

\* The opens that differ: open and open_or_create differ when the meta
\* table has no entry of the table unit, and the build matters to an open
\* that gets to load_last_sequence.
OpenCalls ==
    {asked \in BOOLEAN \X OpenOutcomes \X BOOLEAN :
        /\ meta # None => ~asked[1]
        /\ asked[2] # "Ok" => asked[3]}

Next ==
    \/ \E p \in Procs : CallWriteLog(p)
    \/ \E p \in Procs : \E lens \in Within(BatchChoices, MaxSeq) : \E overflow_checks \in BOOLEAN :
         WriteLogLocked(p, lens, overflow_checks)
    \/ \E p \in Procs : \E outcome \in WriteOutcomes : WriteLogKvWrite(p, outcome)
    \/ \E p \in Procs : WriteLogReturn(p)
    \/ \E p \in Procs : CallDeleteEntriesUpTo(p)
    \/ \E p \in Procs : \E n \in 0..(MaxSeq + 1) : \E overflow_checks \in BOOLEAN :
         DeleteLocked(p, n, overflow_checks)
    \/ \E p \in Procs : \E outcome \in PersistOutcomes : DeletePersist(p, outcome)
    \/ \E p \in Procs : DeleteReturn(p)
    \/ NewBucket
    \/ \E asked \in OpenCalls : Reopen(asked[1], asked[2], asked[3])

Spec == ColdInit /\ [][Next]_vars

\* One caller on a table unit whose sequence numbers are the largest ones,
\* with a read of the whole range and restarts; the caller deletes up to
\* MAX_SEQUENCE_NUMBER and the namespace keeps its one bucket.

TopSpecInit == TopInit /\ EncIdle /\ OpenIdle /\ CacheIdle /\ UnitsIdle

\* Batches of entries of one byte.
OneByteBatches == UNION {[1..n -> {1}] : n \in 0..MaxBatchLen}

TopNext ==
    \/ CallWriteLog(1)
    \/ \E lens \in Within(OneByteBatches, MaxSeq) : \E overflow_checks \in BOOLEAN :
         WriteLogLocked(1, lens, overflow_checks)
    \/ \E outcome \in WriteOutcomes : WriteLogKvWrite(1, outcome)
    \/ WriteLogReturn(1)
    \/ CallDeleteEntriesUpTo(1)
    \/ \E overflow_checks \in BOOLEAN :
         DeleteLocked(1, MAX_SEQUENCE_NUMBER, overflow_checks)
    \/ \E outcome \in PersistOutcomes : DeletePersist(1, outcome)
    \/ DeleteReturn(1)
    \/ \E asked \in OpenCalls : Reopen(asked[1], asked[2], asked[3])
    \/ ReadLog(ReadBoundary_Min, ReadBoundary_Max)
    \/ ReadLogBounds
    \/ NextLogEntry

SpecTop == TopSpecInit /\ [][TopNext]_vars

\* The same caller, and clean_deleted_logs at the same time.
TopCleanNext ==
    \/ CallWriteLog(1)
    \/ \E lens \in Within(OneByteBatches, MaxSeq) : \E overflow_checks \in BOOLEAN :
         WriteLogLocked(1, lens, overflow_checks)
    \/ \E outcome \in WriteOutcomes : WriteLogKvWrite(1, outcome)
    \/ WriteLogReturn(1)
    \/ CallDeleteEntriesUpTo(1)
    \/ \E overflow_checks \in BOOLEAN :
         DeleteLocked(1, MAX_SEQUENCE_NUMBER, overflow_checks)
    \/ \E outcome \in PersistOutcomes : DeletePersist(1, outcome)
    \/ DeleteReturn(1)
    \/ CleanStart
    \/ \E scanned \in BOOLEAN : CleanScan(scanned)
    \/ \E outcome \in CleanOutcomes : CleanWrite(outcome)

SpecTopClean == TopSpecInit /\ [][TopCleanNext]_vars

\* One caller and a reader that goes through its iterator while the caller
\* goes on; the reads have boundaries of every kind, on, next to and away
\* from the sequences that are written.
BoundNumbers == {MIN_SEQUENCE_NUMBER, 1, 2, MAX_SEQUENCE_NUMBER}

ReadBoundaries ==
    {ReadBoundary_Min, ReadBoundary_Max}
      \cup {ReadBoundary_Included(n) : n \in BoundNumbers}
      \cup {ReadBoundary_Excluded(n) : n \in BoundNumbers}

ReadNext ==
    \/ CallWriteLog(1)
    \/ \E lens \in Within(OneByteBatches, MaxSeq) : \E overflow_checks \in BOOLEAN :
         WriteLogLocked(1, lens, overflow_checks)
    \/ \E outcome \in WriteOutcomes : WriteLogKvWrite(1, outcome)
    \/ WriteLogReturn(1)
    \/ CallDeleteEntriesUpTo(1)
    \/ \E n \in 0..MaxSeq : \E overflow_checks \in BOOLEAN :
         DeleteLocked(1, n, overflow_checks)
    \/ \E outcome \in PersistOutcomes : DeletePersist(1, outcome)
    \/ DeleteReturn(1)
    \/ \E start \in ReadBoundaries : \E end \in ReadBoundaries : ReadLog(start, end)
    \/ ReadLogBounds
    \/ NextLogEntry

SpecRead == Init /\ [][ReadNext]_vars

\* One caller, restarts of the table unit, and reads of the whole range.
ReplayNext ==
    \/ CallWriteLog(1)
    \/ \E lens \in Within(BatchChoices, MaxSeq) : \E overflow_checks \in BOOLEAN :
         WriteLogLocked(1, lens, overflow_checks)
    \/ \E outcome \in WriteOutcomes : WriteLogKvWrite(1, outcome)
    \/ WriteLogReturn(1)
    \/ CallDeleteEntriesUpTo(1)
    \/ \E n \in 0..(MaxSeq + 1) : \E overflow_checks \in BOOLEAN :
         DeleteLocked(1, n, overflow_checks)
    \/ \E outcome \in PersistOutcomes : DeletePersist(1, outcome)
    \/ DeleteReturn(1)
    \/ \E asked \in OpenCalls : Reopen(asked[1], asked[2], asked[3])
    \/ ReadLog(ReadBoundary_Min, ReadBoundary_Max)
    \/ ReadLogBounds
    \/ NextLogEntry

SpecReplay == ColdInit /\ [][ReplayNext]_vars

\* The encoder alone.
EncSpecInit == EncInit /\ WalInit /\ OpenIdle /\ CacheIdle /\ UnitsIdle
SpecEncode == EncSpecInit /\ [][Encode]_vars


\* The opens of the tables of one shard, on one space and one disk content.
OpenSpecInit == OpenInit /\ WalInit /\ EncIdle /\ CacheIdle /\ UnitsIdle

OpenNext ==
    \/ DoOpenTablesOfShard
    \/ \E table_id \in Tables : RecoverTableMeta(table_id)
    \/ RecoverTableDatas
    \/ \E table_id \in Tables : Replay(table_id)
    \/ ReplayFails
    \/ ReplayReturns
    \/ OpenResults

SpecOpen == OpenSpecInit /\ [][OpenNext]_vars

\* Callers of get_range on one MemCacheStore.
CacheSpecInit == CacheInit /\ WalInit /\ EncIdle /\ OpenIdle /\ UnitsIdle

CacheNext ==
    \/ \E partition_bits \in PartitionBitsChoices : \E mem_cap \in MemCapChoices :
         \E overflow_checks \in BOOLEAN : New(partition_bits, mem_cap, overflow_checks)
    \/ \E p \in Callers : \E asked \in Requests :
         GetRangeLookup(p, asked[1], asked[2])
    \/ \E p \in Callers : \E failed \in BOOLEAN : GetRangeFetch(p, failed)

SpecCache == CacheSpecInit /\ [][CacheNext]_vars

\* The calls of the memtable key codec.
KeySpecInit == KeyInit /\ EngineIdle /\ RowIdle /\ ThreadedIdle /\ SstIdle /\ BatchIdle /\ PartsIdle

KeyNext ==
    \/ DecodeInternalKey
    \/ CompareInternalKeys
    \/ SeekInternalKey

SpecKey == KeySpecInit /\ [][KeyNext]_vars

\* The rows written by the contiguous row writer and read back.
RowSpecInit == RowInit /\ EngineIdle /\ KeyIdle /\ ThreadedIdle /\ SstIdle /\ BatchIdle /\ PartsIdle

RowNext ==
    \/ WriteRow
    \/ ReadRow

SpecRow == RowSpecInit /\ [][RowNext]_vars

\* One read of a ThreadedReader, its task and its caller.
ThreadedSpecInit == ThreadedInit /\ EngineIdle /\ KeyIdle /\ RowIdle /\ SstIdle /\ BatchIdle /\ PartsIdle

ThreadedNext ==
    \/ ThreadedRead
    \/ TaskNext
    \/ TaskSend
    \/ PollNext
    \/ DropStream

SpecThreaded == ThreadedSpecInit /\ [][ThreadedNext]_vars

\* The reads of the meta data and of the bytes of the SSTs.
SstSpecInit == SstInit /\ EngineIdle /\ KeyIdle /\ RowIdle /\ ThreadedIdle /\ BatchIdle /\ PartsIdle

SstNext ==
    \/ \E c \in SstCallers : \E path \in SstPaths : ReadSstMeta(c, path)
    \/ \E c \in SstCallers : \E failed \in BOOLEAN : SstHead(c, failed)
    \/ \E c \in SstCallers : \E path \in SstPaths : \E range \in DataRanges :
         GetBytes(c, path, range)
    \/ \E c \in SstCallers : SstGetRangeCached(c)
    \/ \E c \in SstCallers : \E failed \in BOOLEAN : SstGetRangeFetched(c, failed)
    \/ \E c \in SstCallers : SstReadReturn(c)

SpecSst == SstSpecInit /\ [][SstNext]_vars

\* The batches of log entries read through a BatchLogIteratorAdapter.
BatchSpecInit == BatchInit /\ EngineIdle /\ KeyIdle /\ RowIdle /\ ThreadedIdle /\ SstIdle /\ PartsIdle

BatchNext ==
    \/ \E a \in AdapterIds : \E buffer \in BufferChoices : CallNextLogEntries(a, buffer)
    \/ \E a \in AdapterIds : \E runtime_fails \in BOOLEAN : BlockingTask(a, runtime_fails)
    \/ \E a \in AdapterIds : CompleteNextLogEntries(a)
    \/ \E a \in AdapterIds : AsyncNextLogEntry(a)
    \/ \E a \in AdapterIds : DropCall(a)

SpecBatch == BatchSpecInit /\ [][BatchNext]_vars

\* An IntegrateLogCollector that is handed parts of logs.
CollectSpecInit == CollectInit /\ EngineIdle /\ FirstUnitsIdle /\ AllocIdle /\ TStateIdle /\ CleanIdle

CollectNext ==
    \/ \E new_log_key \in PartKeys : \E new_log_payload \in PartPayloads :
         Collect(new_log_key, new_log_payload)
    \/ TakeLog

SpecCollect == CollectSpecInit /\ [][CollectNext]_vars

\* The allocation of sequence numbers up to the end of their range.
AllocSpecInit == AllocInit /\ EngineIdle /\ FirstUnitsIdle /\ CollectIdle /\ TStateIdle /\ CleanIdle

AllocNext == \E number \in 0..MaxAllocNumber : AllocSequenceNum(number)

SpecAlloc == AllocSpecInit /\ [][AllocNext]_vars

\* The transitions of the states of the tables.
TStateSpecInit == TStateInit /\ EngineIdle /\ FirstUnitsIdle /\ CollectIdle /\ AllocIdle /\ CleanIdle

TStateNext == \E t \in 1..MaxStateTables : \E to \in TableStates : TryTransit(t, to)

SpecTState == TStateSpecInit /\ [][TStateNext]_vars

\* One caller of write_log and delete_entries_up_to, and clean_deleted_logs
\* at the same time.
MaxSeqClean == 3     \* sequences write_log allocates in this specification

CleanNext ==
    \/ CallWriteLog(1)
    \/ \E lens \in Within(BatchChoices, MaxSeqClean) : \E overflow_checks \in BOOLEAN :
         WriteLogLocked(1, lens, overflow_checks)
    \/ \E outcome \in WriteOutcomes : WriteLogKvWrite(1, outcome)
    \/ WriteLogReturn(1)
    \/ CallDeleteEntriesUpTo(1)
    \/ \E n \in 0..(MaxSeqClean + 1) : \E overflow_checks \in BOOLEAN :
         DeleteLocked(1, n, overflow_checks)
    \/ \E outcome \in PersistOutcomes : DeletePersist(1, outcome)
    \/ DeleteReturn(1)
    \/ NewBucket
    \/ CleanStart
    \/ \E scanned \in BOOLEAN : CleanScan(scanned)
    \/ \E outcome \in CleanOutcomes : CleanWrite(outcome)

SpecClean == Init /\ [][CleanNext]_vars

\* One caller of write_log and delete_entries_up_to, clean_deleted_logs and
\* a read of the whole range, all at the same time, on a store that does not
\* fail the caller; the entries are written one at a time, one byte each.
OneByteEntries == UNION {[1..n -> {1}] : n \in 0..1}

ScanNext ==
    \/ CallWriteLog(1)
    \/ \E lens \in Within(OneByteEntries, MaxSeq) : \E overflow_checks \in BOOLEAN :
         WriteLogLocked(1, lens, overflow_checks)
    \/ WriteLogKvWrite(1, "Ok")
    \/ WriteLogReturn(1)
    \/ CallDeleteEntriesUpTo(1)
    \/ \E n \in 0..MaxSeq : \E overflow_checks \in BOOLEAN :
         DeleteLocked(1, n, overflow_checks)
    \/ DeletePersist(1, "Ok")
    \/ DeleteReturn(1)
    \/ NewBucket
    \/ CleanStart
    \/ \E scanned \in BOOLEAN : CleanScan(scanned)
    \/ \E outcome \in CleanOutcomes : CleanWrite(outcome)
    \/ ReadLog(ReadBoundary_Min, ReadBoundary_Max)
    \/ ReadLogBounds
    \/ NextLogEntry

SpecScan == Init /\ [][ScanNext]_vars
(***************************************************************************)
(* Properties.                                                             *)
(***************************************************************************)
\* The return of the latest step, when it is the return of `op` with `status`.
Returned(op, status) ==
    /\ event # None
    /\ event[1].op = op
    /\ event[1].status = status

RECURSIVE SumValueLen(_)
SumValueLen(records) ==
    IF records = {} THEN 0
    ELSE LET r == CHOOSE x \in records : TRUE
         IN  Len(r.value) + SumValueLen(records \ {r})

RecordsOfSeq(tables, seq) == {r \in AllRecords(tables) : r.key.sequence_num = seq}

\* C1: a successful write_log returns a sequence strictly greater than the
\* sequence every successful write_log before it returned, whatever writes
\* failed in between.
C1_SequenceMonotonic ==
    Returned("write_log", "ok") => event[1].seq > event[1].floor

\* A successful write after an earlier successful one, while the other
\* caller waits for the lock.
C1_Witness ==
    /\ Returned("write_log", "ok")
    /\ event[1].floor >= 1
    /\ \E p \in Procs : call[p].pc = "lock" /\ call[p].op = "write_log"

\* C2: when write_log returns an error, last_sequence is what it was when
\* the call took the writer lock.
C2_FailedWriteKeepsLastSequence ==
    Returned("write_log", "err") => event[1].after = event[1].before

LockedPcs == {"write", "written", "persist", "persisted"}

\* C4: the writer lock has one holder at a time, every sequence range a
\* write_log call allocates lies above the ranges allocated before it (so
\* the ranges are disjoint), and no key-value pair is ever written under a
\* key that is already stored.
C4_WritesSerialized ==
    /\ ~hist.overlap
    /\ ~hist.overwrote
    /\ \A p \in Procs : call[p].pc \in LockedPcs => writer = p
    /\ Cardinality({p \in Procs : call[p].pc \in LockedPcs}) <= 1

\* A write_log returns its second sequence while the other caller, which
\* called write_log before that return, waits for the lock, after a write
\* of that caller had taken the sequence before.
C4_Witness ==
    /\ Returned("write_log", "ok")
    /\ event[1].p = 2
    /\ call[1].pc = "lock" /\ call[1].op = "write_log"
    /\ event[1].first >= 2
    /\ hist.high = event[1].seq

\* The read has come to its end: next_log_entry returned None, or is in a
\* call that never returns.
ReadEnded == reader.pc \in {"done", "hang"}

\* The entries a read over [Min, Max] owes: those of the writes that had
\* returned Ok when read_log was called and that are not marked deleted.
Owed == {a \in reader.acked : a.seq \notin hist.marked}

FullRange == reader.start = ReadBoundary_Min /\ reader.end = ReadBoundary_Max

Yields(seq, payload) ==
    \E k \in 1..Len(reader.out) :
        reader.out[k].sequence = seq /\ reader.out[k].payload = payload

\* C5: a read over [Min, Max] ends and yields every entry of the successful
\* writes that returned before it began, unless the entry was marked deleted.
C5_ReadYieldsWritten ==
    (ReadEnded /\ FullRange /\ reader.acked # {}) =>
        /\ reader.pc = "done"
        /\ \A a \in Owed : Yields(a.seq, WalPayload(a.i, a.len))

\* C6: a read yields no entry that was stored, with a sequence <= seq, when
\* a delete_entries_up_to(seq) returned Ok before read_log was called.
C6_DeletedNotRead ==
    reader.pc # "idle" =>
        \A k \in 1..Len(reader.out) : reader.out[k].sequence \notin reader.marked

\* A read from Min that ended, yielded an entry, and skipped a marked one
\* that is still stored.
C6_Witness ==
    /\ reader.pc = "done"
    /\ reader.start = ReadBoundary_Min
    /\ reader.marked \cap StoredSeqs(kv) # {}
    /\ Len(reader.out) >= 1

\* C7: a read over the full range right after the table unit is opened,
\* with no other call at work, ends and visits exactly the written entries
\* from start_sequence on, in ascending order of sequence: every entry of a
\* write that returned Ok, and nothing but stored logs.
C7_ReplayAfterReopen ==
    (ReadEnded /\ reader.replay /\ reader.quiet /\ FullRange) =>
        /\ reader.pc = "done"
        /\ {reader.out[k].sequence : k \in 1..Len(reader.out)}
             = {s \in StoredSeqs(kv) : s >= start_sequence}
        /\ \A k \in 1..(Len(reader.out) - 1) :
             reader.out[k].sequence < reader.out[k + 1].sequence
        /\ \A a \in reader.acked :
             a.seq >= start_sequence => Yields(a.seq, WalPayload(a.i, a.len))

\* ---- the encoder ----
RECURSIVE Flatten(_)
Flatten(write_batches) ==
    IF write_batches = <<>> THEN <<>>
    ELSE Head(write_batches) \o Flatten(Tail(write_batches))

\* The values of the key-value pairs of `kvs` under sequence `seq`, in order.
RECURSIVE ConcatValues(_, _)
ConcatValues(kvs, seq) ==
    IF kvs = <<>> THEN <<>>
    ELSE (IF Head(kvs).key.sequence_num = seq THEN Head(kvs).value ELSE <<>>)
         \o ConcatValues(Tail(kvs), seq)

RECURSIVE BatchSize(_)
BatchSize(wb) ==
    IF wb = <<>> THEN 0
    ELSE EncodedKeyLen(Head(wb).key) + Len(Head(wb).value) + BatchSize(Tail(wb))

Encoded == enc_out # None /\ enc_out[1].ok

\* The sequence number of the i-th entry of the encoded batch (sequence
\* numbers are u64: the one after the largest is 0).
EncSeq(i) == (enc_in.start_seq + i - 1) % SEQ_MODULUS

\* C8: when encode succeeds, the key-value pairs carry one sequence number
\* per payload, start_seq onwards, in entry order, and the values under
\* the sequence number of the i-th payload, concatenated in order, are
\* payload i.
C8_EncodeRoundTrip ==
    Encoded =>
        LET kvs == Flatten(enc_out[1].v.write_batches)
            n == Len(enc_in.lens)
            EntryOf(k) == CHOOSE i \in 1..n : EncSeq(i) = kvs[k].key.sequence_num
        IN  /\ {kvs[k].key.sequence_num : k \in 1..Len(kvs)} = {EncSeq(i) : i \in 1..n}
            /\ \A k \in 1..(Len(kvs) - 1) : EntryOf(k) <= EntryOf(k + 1)
            /\ \A i \in 1..n : ConcatValues(kvs, EncSeq(i)) = EncEntries[i]

\* Three payloads, the second split into three parts, over several batches.
C8_Witness ==
    /\ Encoded
    /\ Len(enc_in.lens) = 3
    /\ enc_in.lens[2] > 2 * enc_in.log_value_size_limit
    /\ enc_in.lens[3] >= 1
    /\ Len(enc_out[1].v.write_batches) >= 2

\* A payload whose key-value pairs cannot be below the batch limit: one
\* pair of key and whole payload, or the first part of a split payload.
PairTooLarge(len) ==
    IF len > enc_in.log_value_size_limit
    THEN 28 + enc_in.log_value_size_limit >= enc_in.write_batch_size_limit
    ELSE 24 + len >= enc_in.write_batch_size_limit

\* C9: every value encode produces is within log_value_size_limit, every
\* write batch within write_batch_size_limit, and when a key-value pair
\* does not fit below the batch limit encode returns
\* TooSmallSizeLimitPerBatch.
C9_EncodeLimits ==
    /\ Encoded =>
         \A b \in 1..Len(enc_out[1].v.write_batches) :
            LET wb == enc_out[1].v.write_batches[b]
            IN  /\ BatchSize(wb) <= enc_in.write_batch_size_limit
                /\ \A k \in 1..Len(wb) : Len(wb[k].value) <= enc_in.log_value_size_limit
    /\ (/\ enc_out # None
        /\ Len(enc_in.lens) >= 1
        /\ enc_in.log_value_size_limit >= 1
        /\ \E i \in 1..Len(enc_in.lens) : PairTooLarge(enc_in.lens[i]))
       => (~enc_out[1].ok /\ enc_out[1].err = "TooSmallSizeLimitPerBatch")

\* Payloads split by both limits: a split payload and more than one batch,
\* one of them filled to one byte below the limit.
C9_Witness ==
    /\ Encoded
    /\ Len(enc_out[1].v.write_batches) >= 2
    /\ \E i \in 1..Len(enc_in.lens) : enc_in.lens[i] > enc_in.log_value_size_limit
    /\ \E b \in 1..Len(enc_out[1].v.write_batches) :
         BatchSize(enc_out[1].v.write_batches[b]) = enc_in.write_batch_size_limit - 1

\* What holds of the limits: the values and the write batches encode
\* returns are within their limits, and when a key-value pair does not fit
\* below the batch limit encode returns TooSmallSizeLimitPerBatch or panics.
C9_LimitsUnlessPanic ==
    /\ Encoded =>
         \A b \in 1..Len(enc_out[1].v.write_batches) :
            LET wb == enc_out[1].v.write_batches[b]
            IN  /\ BatchSize(wb) <= enc_in.write_batch_size_limit
                /\ \A k \in 1..Len(wb) : Len(wb[k].value) <= enc_in.log_value_size_limit
    /\ (/\ enc_out # None
        /\ Len(enc_in.lens) >= 1
        /\ enc_in.log_value_size_limit >= 1
        /\ \E i \in 1..Len(enc_in.lens) : PairTooLarge(enc_in.lens[i]))
       => (~enc_out[1].ok /\ enc_out[1].err \in {"TooSmallSizeLimitPerBatch", "panic"})

\* encode panics on payloads that each fit a write batch: empty payloads
\* are counted as no key-value pair and inserted as one.
C9_PanicWitness ==
    /\ enc_out # None
    /\ ~enc_out[1].ok /\ enc_out[1].err = "panic"
    /\ enc_in.log_value_size_limit >= 1
    /\ \A i \in 1..Len(enc_in.lens) : ~PairTooLarge(enc_in.lens[i])

\* ---- read boundaries ----
AdmitsStart(b, seq) ==
    CASE b.kind = "Min" -> seq >= MIN_SEQUENCE_NUMBER
      [] b.kind = "Max" -> seq >= MAX_SEQUENCE_NUMBER
      [] b.kind = "Included" -> seq >= b.n
      [] b.kind = "Excluded" -> seq > b.n

AdmitsEnd(b, seq) ==
    CASE b.kind = "Min" -> seq <= MIN_SEQUENCE_NUMBER
      [] b.kind = "Max" -> seq <= MAX_SEQUENCE_NUMBER
      [] b.kind = "Included" -> seq <= b.n
      [] b.kind = "Excluded" -> seq < b.n

SequenceNumbers == MIN_SEQUENCE_NUMBER..MAX_SEQUENCE_NUMBER

AllBoundaries ==
    {ReadBoundary_Min, ReadBoundary_Max}
      \cup {ReadBoundary_Included(n) : n \in SequenceNumbers}
      \cup {ReadBoundary_Excluded(n) : n \in SequenceNumbers}

\* The sequence a bound stands for is the smallest (as a start) or the
\* largest (as an end) sequence number the bound admits, and it stands for
\* none exactly when it admits none.
BoundariesExact ==
    \A b \in AllBoundaries :
        LET s == as_start_sequence_number(b)
            e == as_end_sequence_number(b)
        IN  /\ (s = None) <=> (b = ReadBoundary_Excluded(MAX_SEQUENCE_NUMBER))
            /\ s # None =>
                 /\ s[1] \in SequenceNumbers
                 /\ AdmitsStart(b, s[1])
                 /\ \A n \in SequenceNumbers : AdmitsStart(b, n) => s[1] <= n
            /\ (e = None) <=> (b = ReadBoundary_Excluded(MIN_SEQUENCE_NUMBER))
            /\ e # None =>
                 /\ e[1] \in SequenceNumbers
                 /\ AdmitsEnd(b, e[1])
                 /\ \A n \in SequenceNumbers : AdmitsEnd(b, n) => n <= e[1]

\* C10: a read yields only sequences its two bounds admit (Included(n)
\* admits n, Excluded(n) admits from n + 1 as a start and up to n - 1 as an
\* end, Min and Max are the smallest and largest sequence number); a start
\* of Excluded(MAX_SEQUENCE_NUMBER) or an end of Excluded(MIN_SEQUENCE_NUMBER)
\* yields nothing; no bound is turned into a number outside the sequence
\* numbers.
C10_ReadBoundaries ==
    /\ reader.pc # "idle" =>
         /\ \A k \in 1..Len(reader.out) :
              /\ AdmitsStart(reader.start, reader.out[k].sequence)
              /\ AdmitsEnd(reader.end, reader.out[k].sequence)
         /\ (\/ reader.start = ReadBoundary_Excluded(MAX_SEQUENCE_NUMBER)
             \/ reader.end = ReadBoundary_Excluded(MIN_SEQUENCE_NUMBER))
            => (reader.pc # "hang" /\ reader.out = <<>>)
    /\ BoundariesExact

\* A read from an excluded start that ended and yielded the entry above the
\* bound, the entry of the bound being stored and not deleted.
C10_Witness ==
    /\ reader.pc = "done"
    /\ reader.start = ReadBoundary_Excluded(1)
    /\ reader.end = ReadBoundary_Max
    /\ Len(reader.out) = 1
    /\ reader.out[1].sequence = 2
    /\ {1, 2} \subseteq StoredSeqs(kv)
    /\ start_sequence = 0

\* A read up to an included end that ended and yielded the entry of the
\* bound, the entry above it being stored when read_log was called.
C10_EndWitness ==
    /\ reader.pc = "done"
    /\ reader.quiet
    /\ reader.start = ReadBoundary_Min
    /\ reader.end = ReadBoundary_Included(1)
    /\ Len(reader.out) = 1
    /\ reader.out[1].sequence = 1
    /\ {1, 2} \subseteq StoredSeqs(kv)


(***************************************************************************)
(* Properties of the opener of the tables of a shard.                      *)
(***************************************************************************)
\* The latest open returned Ok with the result map.
OpenReturnedOk == open_result # None /\ open_result[1].ok

\* One change of the stage of a table that the state machine allows.
StageStep(a, b) ==
    \/ a = b
    \/ /\ a.kind = "RecoverTableMeta"
       /\ \/ b.kind = "RecoverTableData"
          \/ b = TableOpenStage_Success(None)
          \/ b.kind = "Failed"
    \/ /\ a.kind = "RecoverTableData"
       /\ \/ b = TableOpenStage_Success(a.table)
          \/ b.kind = "Failed"

\* The result map has one entry per table of the request, made of its stage.
ResultOfStages(st, r) ==
    /\ DOMAIN r = request
    /\ DOMAIN st = request
    /\ \A table_id \in request :
         \/ st[table_id].kind = "Success" /\ r[table_id] = Ok(st[table_id].table)
         \/ st[table_id].kind = "Failed" /\ ~r[table_id].ok

\* C11: during an open the stage of a table changes only along
\* RecoverTableMeta -> RecoverTableData -> Success(Some(table)),
\* RecoverTableMeta -> Success(None), RecoverTableMeta -> Failed and
\* RecoverTableData -> Failed, Success and Failed are never left, and when the
\* open returns Ok its map has exactly one entry per table id of the request:
\* Ok for a table that ended in Success, Err for one that ended in Failed.
C11_StageTransitions ==
    [][/\ \A table_id \in (DOMAIN states) \cap (DOMAIN states') :
            StageStep(states[table_id], states'[table_id])
       /\ (open_result = None /\ open_result' # None /\ open_result'[1].ok)
            => ResultOfStages(states, open_result'[1].v)]_vars

C11_Witness ==
    /\ OpenReturnedOk
    /\ \E a, b, c \in request :
         /\ open_result[1].v[a] = Ok(Some(TableData(a, 1)))
         /\ open_result[1].v[b] = Ok(None)
         /\ ~open_result[1].v[c].ok

\* C12: once the WAL of a table has been replayed in an open, no table of the
\* request is in the stage RecoverTableMeta, and manifest.recover has returned
\* for every table that started the open in that stage.
C12_MetaBeforeReplay ==
    (opener.pc = "replay" \/ open_hist.replayed # {}) =>
        \A table_id \in DOMAIN states :
            /\ states[table_id].kind # "RecoverTableMeta"
            /\ open_hist.space0[table_id] = None => table_id \in open_hist.recovered

C12_Witness ==
    /\ opener.pc = "replay"
    /\ Cardinality(open_hist.replayed) = 1
    /\ Cardinality(opener.replay) = 2
    /\ \E table_id \in request : states[table_id].kind = "Failed"

\* The result of the open of a request that holds the table alone, on the
\* space as it was when the open began.
ResultAlone(table_id) ==
    LET s0 == ShardOpener_init_stage(open_hist.space0, table_id)
        rec == manifest_recover(durable, open_hist.space0, table_id, open_hist.opens)
        s1 == IF s0.kind = "RecoverTableMeta"
              THEN recover_table_metas_stage(s0, rec.ok, rec.space, table_id)
              ELSE Ok(s0)
        s2 == IF s1.ok /\ s1.v.kind = "RecoverTableData"
              THEN recover_table_datas_stage(s1.v, replay_table_result(durable, table_id))
              ELSE s1
    IN  IF s2.ok THEN table_results_of([x \in {table_id} |-> s2.v]).v[table_id]
        ELSE s2

\* C13: unless the replay as a whole returns an error, an open returns Ok
\* also when the manifest recovery or the WAL replay of some of its tables
\* fails, and the result of every table is the one it has in an open without
\* the other tables (Err for a table that failed).
C13_FailureIsPerTable ==
    (open_result # None /\ ~open_hist.replay_failed) =>
        /\ open_result[1].ok
        /\ \A table_id \in request :
             open_result[1].v[table_id] = ResultAlone(table_id)

C13_Witness ==
    /\ OpenReturnedOk
    /\ open_hist.opens = 1
    /\ \E a, b, c \in request :
         /\ durable[a] = "manifest_error" /\ ~open_result[1].v[a].ok
         /\ durable[b] = "wal_error" /\ ~open_result[1].v[b].ok
         /\ open_result[1].v[c] = Ok(Some(TableData(c, 1)))

\* C14: for a table the space holds when the open starts, the open calls
\* neither manifest.recover nor the WAL replay, and its result is
\* Ok(Some(the table data the space held)).
C14_OpenedTableUntouched ==
    \A table_id \in request :
        (open_hist.opens >= 1 /\ open_hist.space0[table_id] # None) =>
            /\ table_id \notin open_hist.recovered
            /\ table_id \notin open_hist.replayed
            /\ table_id \notin opener.replay
            /\ space[table_id] = open_hist.space0[table_id]
            /\ OpenReturnedOk => open_result[1].v[table_id] = Ok(open_hist.space0[table_id])

C14_Witness ==
    /\ OpenReturnedOk
    /\ open_hist.opens = 1
    /\ open_hist.replayed # {}
    /\ \E table_id \in request :
         /\ open_hist.space0[table_id] = Some(TableData(table_id, 0))
         /\ open_result[1].v[table_id] = Ok(Some(TableData(table_id, 0)))

\* The tables an open returned.
TableSet(r) ==
    {r.v[table_id].v[1] :
       table_id \in {t \in DOMAIN r.v : r.v[t].ok /\ r.v[t].v # None}}

\* C15: a second open of the same tables on the same disk content returns the
\* same table set as the first one.
C15_OpenTwiceSameTables ==
    (/\ open_hist.opens = 2
     /\ OpenReturnedOk
     /\ open_hist.first # None
     /\ open_hist.first[1].ok) =>
        TableSet(open_result[1]) = TableSet(open_hist.first[1])

(***************************************************************************)
(* Properties of the partitioned memory cache.                             *)
(***************************************************************************)
\* The bytes a cache holds, and the stored value of a key.
TotalWeight(c) ==
    LET RECURSIVE Sum(_)
        Sum(n) == IF n = 0 THEN 0 ELSE SumWeights(c.partitions[n].storage) + Sum(n - 1)
    IN  Sum(Len(c.partitions))

CeilDiv(a, b) == (a + b - 1) \div b

StorageOf(c, key) == c.partitions[locate_partition(c, hashes, key)].storage

CapacityOf(c, key) == c.partitions[locate_partition(c, hashes, key)].capacity

Without(storage, key) == SelectSeq(storage, LAMBDA e : e.key # key)

Holds(c, key, value) ==
    \E i \in 1..Len(StorageOf(c, key)) :
        StorageOf(c, key)[i] = [key |-> key, value |-> value]

\* The steps of a get_range call of caller p.
MissStep(p) == getter[p].pc = "idle" /\ getter'[p].pc = "fetch"
FetchStep(p) == getter[p].pc = "fetch" /\ getter'[p].pc = "idle"
HitStep == cache # None /\ getter' = getter /\ cache_event' # None /\ cache_event'[1].hit

\* C16: with total capacity C and N partitions, every partition holds at most
\* C / N bytes, and the bytes of all partitions together are at most
\* N * ceil(C / N) and at most mem_cap.
C16_PartitionBound ==
    cache # None =>
        LET c == cache[1]
            N == Len(c.partitions)
        IN  /\ \A n \in 1..N : SumWeights(c.partitions[n].storage) <= c.mem_cap \div N
            /\ TotalWeight(c) <= N * CeilDiv(c.mem_cap, N)
            /\ TotalWeight(c) <= c.mem_cap

C16_Witness ==
    /\ cache # None
    /\ Len(cache[1].partitions) = 2
    /\ cache[1].mem_cap = 13
    /\ \A n \in 1..2 : SumWeights(cache[1].partitions[n].storage) = 5

\* C17: a hit makes its entry the most recently used; an insert puts the new
\* entry first and keeps the most recently used of the others, in their
\* order; and no entry leaves the partition when the bytes it holds and the
\* bytes of the new value are together within its capacity.
C17_EvictLruOnlyWhenNeeded ==
    (cache # None /\ cache_event # None /\ cache_event[1].op = "get_range"
       /\ cache_event[1].result.ok) =>
        LET key == cache_event[1].key
            before == Without(StorageOf(cache_hist[1], key), key)
            after == Without(StorageOf(cache[1], key), key)
            w == Len(cache_event[1].result.v)
        IN  /\ cache_event[1].hit => StorageOf(cache[1], key)[1].key = key
            /\ after = SubSeq(before, 1, Len(after))
            /\ SumWeights(before) + w <= CapacityOf(cache[1], key) => after = before

\* C18: a get_range that misses finds no entry of its key, and once the
\* underlying store has answered it the bytes are in the cache under the
\* key; a get_range that finds the entry returns its bytes and does not call
\* the underlying store.
C18_SecondRequestHits ==
    [][/\ \A p \in Callers :
            /\ MissStep(p) =>
                 StorageOf(cache[1], getter'[p].key[1])
                   = Without(StorageOf(cache[1], getter'[p].key[1]), getter'[p].key[1])
            /\ (FetchStep(p) /\ cache_event'[1].result.ok) =>
                 Holds(cache'[1], cache_event'[1].key, cache_event'[1].result.v)
       /\ HitStep =>
            /\ ~cache_event'[1].store_called
            /\ Holds(cache[1], cache_event'[1].key, cache_event'[1].result.v)
            /\ cache_event'[1].result
                 = Ok(object_bytes(cache_event'[1].location, cache_event'[1].range))]_vars

\* C19: a get_range whose bytes weigh more than the capacity of the partition
\* of its key returns the bytes and leaves the cache as it found it, at the
\* lookup and at the insert.
C19_OversizedNotCached ==
    [][\A p \in Callers :
          /\ MissStep(p) => cache' = cache
          /\ (FetchStep(p) /\ cache_event'[1].result.ok
                /\ Len(cache_event'[1].result.v) > CapacityOf(cache[1], cache_event'[1].key)) =>
               /\ cache' = cache
               /\ cache_event'[1].result
                    = Ok(object_bytes(cache_event'[1].location, cache_event'[1].range))]_vars

C19_Witness ==
    /\ cache # None /\ cache_event # None
    /\ cache_event[1].op = "get_range"
    /\ ~cache_event[1].hit
    /\ cache_event[1].result.ok
    /\ Len(cache_event[1].result.v) > CapacityOf(cache[1], cache_event[1].key)
    /\ StorageOf(cache[1], cache_event[1].key) # <<>>
    /\ cache_hist = cache

\* C20: MemCacheStore::new(partition_bits, mem_cap) with mem_cap > 0 succeeds,
\* makes 2^partition_bits partitions of capacity mem_cap / 2^partition_bits
\* each, and every key is located in one of them.
C20_NewSucceeds ==
    (cache_event # None /\ cache_event[1].op = "new" /\ cache_event[1].mem_cap > 0) =>
        /\ cache_event[1].result.ok
        /\ cache_event[1].partition_bits < USIZE_BITS
        /\ LET c == cache_event[1].result.v
               N == 2^cache_event[1].partition_bits
           IN  /\ Len(c.partitions) = N
               /\ \A n \in 1..N : c.partitions[n].capacity = cache_event[1].mem_cap \div N
               /\ \A key \in CacheKeys : locate_partition(c, hashes, key) \in 1..N

(***************************************************************************)
(* The memtable key codec.                                                 *)
(***************************************************************************)
KeyDecoded == key_out # None /\ key_out[1].op = "decode"
KeyCompared == key_out # None /\ key_out[1].op = "compare"
KeySought == key_out # None /\ key_out[1].op = "seek"

\* C21: for every non-empty user key, sequence number and row index, the
\* encoding of the key sequence is 12 bytes long, and
\* user_key_from_internal_key on the user key followed by the encoding
\* returns the same user key, sequence number and row index.
C21_KeySequenceRoundTrip ==
    (KeyDecoded /\ key_in.a.key # <<>>) =>
        /\ Len(key_out[1].encoded) = 12
        /\ key_out[1].decoded =
             Ok([user_key |-> key_in.a.key,
                 sequence |-> [sequence |-> key_in.a.sequence,
                               row_index |-> key_in.a.row_index]])

C21_Witness ==
    /\ KeyDecoded
    /\ key_in.a.key = <<255, 0>>
    /\ key_in.a.sequence = <<0, 0, 0, 256>>
    /\ key_in.a.row_index = <<0, 256>>
    /\ key_out[1].encoded = <<255, 255, 255, 255, 255, 255, 254, 255, 255, 255, 254, 255>>
    /\ key_out[1].decoded.ok

\* The order the internal keys are meant to have: user key ascending, then
\* sequence number descending, then row index descending.
KeyOrder(a, b) ==
    LET by_user_key == slice_cmp(MemComparable_encode(<<>>, a.key),
                                 MemComparable_encode(<<>>, b.key))
    IN  IF by_user_key # "Equal" THEN by_user_key
        ELSE IF a.sequence # b.sequence
        THEN (IF uint_lt(b.sequence, a.sequence) THEN "Less" ELSE "Greater")
        ELSE IF a.row_index # b.row_index
        THEN (IF uint_lt(b.row_index, a.row_index) THEN "Less" ELSE "Greater")
        ELSE "Equal"

\* C22: the bytewise comparison of two encoded internal keys orders them by
\* user key ascending, then by sequence number descending, then by row
\* index descending.
C22_BytewiseOrder ==
    KeyCompared =>
        /\ key_out[1].ordering = KeyOrder(key_in.a, key_in.b)
        /\ key_out[1].same = (KeyOrder(key_in.a, key_in.b) = "Equal")

C22_Witness ==
    /\ KeyCompared
    /\ key_in.a.key = key_in.b.key
    /\ key_in.a.sequence = <<0, 0, 0, 256>>
    /\ key_in.b.sequence = <<0, 0, 0, 1>>
    /\ key_in.a.row_index = <<0, 1>>
    /\ key_in.b.row_index = <<0, 256>>
    /\ key_out[1].ordering = "Less"

\* C23: the key of internal_key_for_seek(K, s) is greater than every
\* internal key of K with a sequence number above s and not greater than
\* any with a sequence number up to s, whatever the row index; the versions
\* of K up to s follow it in descending sequence order, every internal key
\* of a greater user key comes after all of them, and every internal key
\* of a smaller user key comes before the seek key.
C23_SeekKey ==
    KeySought =>
        LET a == key_in.a
            b == key_in.b
            s == key_in.snapshot
            by_user_key == slice_cmp(MemComparable_encode(<<>>, a.key),
                                     MemComparable_encode(<<>>, b.key))
            a_b == compare_key(key_out[1].a, key_out[1].b)
        IN  /\ uint_lt(s, a.sequence) => key_out[1].seek_a = "Greater"
            /\ uint_le(a.sequence, s) => key_out[1].seek_a \in {"Less", "Equal"}
            /\ by_user_key = "Equal" =>
                 /\ uint_lt(s, b.sequence) => key_out[1].seek_b = "Greater"
                 /\ uint_le(b.sequence, s) => key_out[1].seek_b \in {"Less", "Equal"}
                 /\ uint_lt(b.sequence, a.sequence) => a_b = "Less"
            /\ by_user_key = "Less" => (key_out[1].seek_b = "Less" /\ a_b = "Less")
            /\ by_user_key = "Greater" => key_out[1].seek_b = "Greater"

C23_Witness ==
    /\ KeySought
    /\ key_in.a.key = <<255>>
    /\ key_in.b.key = <<255, 0>>
    /\ key_in.snapshot = <<0, 0, 0, 256>>
    /\ key_in.a.sequence = <<0, 0, 0, 256>>
    /\ key_in.b.sequence = SequenceNumber_MAX
    /\ key_out[1].seek_a = "Less"
    /\ key_out[1].seek_b = "Less"

(***************************************************************************)
(* The contiguous row codec.                                               *)
(***************************************************************************)
RowWritten == row_out # None /\ row_out[1].written.ok
RowRead == RowWritten /\ row_out[1].reader # None

\* the view of the datum of a column of the table schema: null for a
\* column the writer does not have
ExpectedView(index_in_table) ==
    LET datum == datum_in_writer(row_in, index_in_table)
    IN  IF datum = None THEN [kind |-> "Null"] ELSE as_view(datum[1])

RowHasNulls == count_null_cols(row_in, 0) > 0

\* C24: after write_row succeeded on a buffer, ContiguousRowReader::try_new
\* on the buffer succeeds and datum_view_at(i) is the view of the i-th datum
\* of the row for every column i, for rows without a null column and for
\* rows with null columns.
C24_RowRoundTrip ==
    RowRead =>
        /\ row_out[1].reader[1].ok
        /\ row_out[1].views =
             Some([i \in 1..num_columns(row_in.table_schema) |-> Ok(ExpectedView(i - 1))])

\* the same for the rows without a null column
C24_NoNullsRoundTrip == RowHasNulls \/ C24_RowRoundTrip

C24_NoNullsWitness ==
    /\ RowRead
    /\ ~RowHasNulls
    /\ row_in.table_schema = <<"UInt8", "UInt16">>
    /\ row_out[1].views = Some(<<Ok([kind |-> "UInt8", v |-> 255]),
                                 Ok([kind |-> "UInt16", v |-> 51401])>>)

\* the length of the encoding of the row: the u32 in front, the bit set of
\* the with-nulls form, the datum area and the strings with their lengths
EncodingLen ==
    IF RowHasNulls
    THEN 4 + BitSet_num_bytes(num_columns(row_in.table_schema))
         + bytes_of_datums(row_in, 0) + bytes_of_strings(row_in, 0)
    ELSE 4 + string_buffer_offset(row_in.table_schema) + bytes_of_strings(row_in, 0)

HasLongString ==
    \E i \in 1..Len(row_in.row) :
        ~is_fixed_sized(row_in.row[i]) /\ size(row_in.row[i]) > MAX_STRING_LEN

\* C25: write_row on a row with a String or Varbinary datum longer than
\* MAX_STRING_LEN, or whose encoding would be longer than MAX_ROW_LEN,
\* returns an error to its caller.
C25_TooLongIsAnError ==
    (row_out # None /\ (HasLongString \/ EncodingLen > MAX_ROW_LEN)) =>
        (~row_out[1].written.ok /\ row_out[1].written.err # "panic")

(***************************************************************************)
(* ThreadedReader.                                                         *)
(***************************************************************************)
IsPrefix(s, t) == Len(s) <= Len(t) /\ s = SubSeq(t, 1, Len(s))

\* C26: the stream of ThreadedReader::read yields the items of the inner
\* stream in their order, the errors among them as items, and ends only
\* after the task finished and every item was yielded; the channel never
\* holds more than channel_cap items.
C26_StreamDelivers ==
    tr_chan # None =>
        /\ Len(tr_chan[1].queue) <= tr_inner.channel_cap
        /\ IsPrefix(tr_caller.got, tr_inner.items)
        /\ tr_caller.stream = "held" =>
             tr_caller.got \o tr_chan[1].queue
                 \o (IF tr_task.pc = "send" THEN tr_task.batch ELSE <<>>)
               = SubSeq(tr_inner.items, 1, tr_inner.pulled)
        /\ tr_caller.ended => (tr_task.pc = "done" /\ tr_caller.got = tr_inner.items)

C26_Witness ==
    /\ tr_caller.ended
    /\ tr_caller.got = <<Ok(1), Err(2), Ok(3)>>
    /\ tr_inner.channel_cap = 2
    /\ tr_hist.full

\* C27: once a send of the task failed because the caller dropped the
\* stream, the task is finished: it pulls no further item from the inner
\* stream.
C27_TaskStopsAtFailedSend ==
    tr_hist.failed_sends > 0 =>
        (tr_task.pc = "done" /\ tr_hist.pulled_after_failed_send = 0)

\* the paths the entries of the meta cache and of the data cache are for
MetaCachePaths(lru) == IF lru = None THEN {} ELSE {e.key : e \in lru[1]}
DataCachePaths(lru) == IF lru = None THEN {} ELSE {e.key.name : e \in lru[1]}

\* the read of the caller has returned
SstReturned(c) == sst_call[c].pc = "idle" /\ sst_call[c].result # None

\* the read of the caller had to fetch from a store that failed, or met a
\* footer that is not a good one
SstFetchFails(c) ==
    \/ sst_call[c].failure # "none"
    \/ /\ sst_call[c].op = "read_sst_meta"
       /\ sst_call[c].range = FooterRange
       /\ sst_files[sst_call[c].path] # "good"

\* a read that has to fetch and whose fetch fails returns an error, a read
\* that returned an error has put nothing into a cache, and the caches hold
\* the meta data of files with a good footer and the bytes of the objects
\* only
C28_State ==
    /\ \A c \in SstCallers :
         SstReturned(c) =>
            /\ SstFetchFails(c) => ~sst_call[c].result[1].ok
            /\ ~sst_call[c].result[1].ok => ~sst_call[c].put
    /\ \A path \in MetaCachePaths(sst_meta_cache) : sst_files[path] = "good"
    /\ sst_data_cache # None =>
         \A e \in sst_data_cache[1] :
            e.value = object_bytes(e.key.name, <<e.key.start, e.key.end>>)

\* the step in which a read returns an error leaves the meta cache and the
\* data cache as they are, whatever the other reads have done before it;
\* the step in which get_range of a read fails leaves the cache of the
\* store and the two caches as they are; and the meta cache and the data
\* cache change only in the step in which a read returns Ok
C28_Step ==
    \A c \in SstCallers :
        /\ (sst_call[c].pc # "idle" /\ SstReturned(c)' /\ ~sst_call'[c].result[1].ok) =>
              UNCHANGED <<sst_meta_cache, sst_data_cache>>
        /\ (sst_call[c].pc = "underlying" /\ sst_call'[c].failure = "fetch") =>
              UNCHANGED <<sst_store, sst_meta_cache, sst_data_cache>>
        /\ (sst_call'[c].pc # sst_call[c].pc
              /\ ~(SstReturned(c)' /\ sst_call'[c].result[1].ok)) =>
              UNCHANGED <<sst_meta_cache, sst_data_cache>>

\* C28: a read that has to fetch and whose fetch fails (the store fails at
\* the head, at the fetch of the footer or at get_range, or the footer has
\* no key-value meta data, an empty list of them or meta data that cannot
\* be decoded) returns an error, and a read that returns an error leaves
\* the meta cache and the data cache without a new entry for the file,
\* also while another read is under way; a failed get_range of the store
\* leaves the cache of the store as it was.
C28_FailedFetchCachesNothing == []C28_State /\ [][C28_Step]_vars

\* a footer that cannot be decoded is read while both caches hold entries of
\* the other file, and the read is an error
C28_Witness ==
    /\ SstReturned(1)
    /\ sst_call[1].op = "read_sst_meta"
    /\ sst_call[1].path = "1.sst"
    /\ sst_files["1.sst"] = "undecodable"
    /\ sst_call[1].result = Some(Err("DecodeSstMeta"))
    /\ MetaCachePaths(sst_meta_cache) = {"2.sst"}
    /\ DataCachePaths(sst_data_cache) = {"2.sst"}

\* get_bytes of one caller failed at the store after get_bytes of the other
\* caller, begun after it for the same bytes, had put them into the data
\* cache
C28_GetBytesWitness ==
    /\ SstReturned(1)
    /\ sst_call[1].op = "get_bytes"
    /\ sst_call[1].failure = "fetch"
    /\ sst_call[1].result = Some(Err("ParquetError"))
    /\ SstReturned(2)
    /\ sst_call[2].op = "get_bytes"
    /\ sst_call[2].path = sst_call[1].path
    /\ sst_call[2].put
    /\ sst_call[1].path \in DataCachePaths(sst_data_cache)

\* the bytes one caller fetched are in the cache of the store and not yet
\* in the data cache, that caller has not returned, and the other caller,
\* whose get_range found them in the cache of the store, has put them into
\* the data cache and returned
C28_StoreHitWitness ==
    /\ sst_call[1].op = "get_bytes"
    /\ sst_call[1].pc = "fetched"
    /\ sst_call[1].failure = "none"
    /\ SstReturned(2)
    /\ sst_call[2].op = "get_bytes"
    /\ sst_call[2].path = sst_call[1].path
    /\ sst_call[2].range = sst_call[1].range
    /\ sst_call[2].put
    /\ sst_call[2].result[1].ok

\* two reads of the meta data of the same file both missed the meta cache
\* and both wait for the underlying store
C28_TwoFetchesWitness ==
    /\ \A c \in SstCallers :
         /\ sst_call[c].op = "read_sst_meta"
         /\ sst_call[c].path = "1.sst"
         /\ sst_call[c].pc = "underlying"

\* the entries of the log as next_log_entries hands them out: the sequence
\* number as it is, the payload decoded
DecodedEntries(raw_entries) ==
    [i \in 1..Len(raw_entries) |->
        [sequence |-> raw_entries[i].sequence,
         payload |-> [decoded |-> raw_entries[i].payload[2]]]]

\* the number of entries an adapter that no call is running on has to have
\* returned: those before its iterator, all of them when it has none
EntriesTaken(a) ==
    IF adapter[a].inner_iterator # None THEN adapter[a].inner_iterator[1].pos - 1
    ELSE Len(batch_log)

\* the batches an adapter returned are the entries of the log from its
\* first one, and all the entries its iterator has handed out; no batch has
\* more than batch_size entries
BatchesAreTheEntries(a) ==
    /\ IsPrefix(batch_hist[a].delivered, DecodedEntries(batch_log))
    /\ batch_call[a].pc = "idle" => Len(batch_hist[a].delivered) = EntriesTaken(a)
    /\ (batch_hist[a].last # None /\ batch_hist[a].last[1].ok)
         => Len(batch_hist[a].last[1].v) <= adapter[a].batch_size

\* C29: the batches returned so far, one after the other, are the entries of
\* the underlying iterator from its first one, in their order, with their
\* sequence numbers; as long as no call returned an error they are all the
\* entries the iterator has handed out (all its entries once the adapter has
\* no iterator left); no batch has more than batch_size entries.  For the
\* blocking and for the async iterator.
C29_BatchesAreTheEntries ==
    \A a \in AdapterIds : ~batch_hist[a].errored => BatchesAreTheEntries(a)

\* the same as long as no call was dropped either
C29_WithoutDroppedCall ==
    \A a \in AdapterIds :
        (~batch_hist[a].errored /\ ~batch_hist[a].dropped) => BatchesAreTheEntries(a)

\* two entries were read through a blocking iterator in batches of one
C29_Witness ==
    /\ adapter[1].inner_iterator # None
    /\ adapter[1].inner_iterator[1].kind = "Blocking"
    /\ adapter[1].batch_size = 1
    /\ ~batch_hist[1].errored
    /\ ~batch_hist[1].dropped
    /\ Len(batch_hist[1].delivered) = 2
    /\ batch_hist[1].calls = 2

\* two entries were read through an async iterator in one batch, and the
\* next call found the iterator exhausted
C29_AsyncWitness ==
    /\ batch_hist[1].taken # None
    /\ batch_hist[1].taken[1].kind = "Async"
    /\ adapter[1].batch_size = 2
    /\ adapter[1].inner_iterator = None
    /\ ~batch_hist[1].errored
    /\ ~batch_hist[1].dropped
    /\ Len(batch_hist[1].delivered) = 2
    /\ batch_hist[1].calls = 2

\* the underlying iterator had entries left when the latest call began
HadEntriesLeft(a) ==
    /\ batch_hist[a].taken # None
    /\ batch_hist[a].taken[1].pos <= Len(batch_log)

EmptyOnlyWhenExhausted(a) ==
    (batch_hist[a].latest = "returned" /\ ~batch_hist[a].errored /\ ~batch_hist[a].dropped) =>
        /\ HadEntriesLeft(a) <=> batch_hist[a].last[1].v # <<>>
        /\ batch_hist[a].after_empty => batch_hist[a].last[1].v = <<>>

\* C30: as long as no call returned an error or was dropped, a call returns
\* a batch with entries when the underlying iterator has entries left and an
\* empty batch when it has none, and after an empty batch every batch is
\* empty.
C30_EmptyOnlyWhenExhausted == \A a \in AdapterIds : EmptyOnlyWhenExhausted(a)

\* the same for the batch sizes above zero
C30_PositiveBatchSize ==
    \A a \in AdapterIds : adapter[a].batch_size > 0 => EmptyOnlyWhenExhausted(a)

C30_PositiveBatchSizeWitness ==
    /\ adapter[1].batch_size = 2
    /\ ~batch_hist[1].errored
    /\ ~batch_hist[1].dropped
    /\ batch_hist[1].latest = "returned"
    /\ batch_hist[1].after_empty
    /\ Len(batch_hist[1].delivered) = 2

\* a call after one that returned an error never returns an empty batch
\* while entries of the log were not handed out
C30_NoEmptyBatchAfterError ==
    \A a \in AdapterIds :
        (batch_hist[a].latest = "returned" /\ batch_hist[a].last[1].ok
           /\ batch_hist[a].errored /\ ~batch_hist[a].dropped
           /\ Len(batch_hist[a].delivered) < Len(batch_log))
        => batch_hist[a].last[1].v # <<>>


(***************************************************************************)
(* Properties of the errors of the batch iterator, of the iterator over    *)
(* the table unit, of the cleaning of deleted logs, of the sequence        *)
(* numbers, of the table states, of the shard opener and of the cache.     *)
(***************************************************************************)

\* the latest call of next_log_entries of an adapter met an entry it could
\* not read or decode within its batch, or its task on the runtime did not
\* complete
CallMetFailure(a) ==
    /\ batch_hist[a].taken # None
    /\ LET iter == batch_hist[a].taken[1]
           rounds == adapter[a].batch_size
       IN  \/ iter.kind = "Blocking" /\ batch_hist[a].runtime_failed
           \/ \E p \in iter.pos..(iter.pos + rounds - 1) :
                /\ p <= Len(batch_log) + 1
                /\ \/ iter.fail_at = p
                   \/ p <= Len(batch_log) /\ batch_log[p].payload[1] = "corrupt"

\* C31: a call of next_log_entries in which reading or decoding an entry
\* fails (or whose task fails) returns the error, and no other call does;
\* after it the adapter holds no iterator and every later call returns no
\* entry; an adapter over the same log whose own calls met no failure and
\* were not dropped goes on returning the entries of the log from where it
\* stands, whatever the other one met; the log is as it was when the
\* adapters were made.
C31_FailureConfinedToAdapter ==
    \A a \in AdapterIds :
        /\ batch_hist[a].latest = "returned" =>
             /\ CallMetFailure(a) <=> ~batch_hist[a].last[1].ok
             /\ batch_hist[a].after_error => batch_hist[a].last[1] = Ok(<<>>)
        /\ batch_hist[a].errored => adapter[a].inner_iterator = None
        /\ IsPrefix(batch_hist[a].delivered, DecodedEntries(batch_log))
        /\ (~batch_hist[a].errored /\ ~batch_hist[a].dropped /\ batch_call[a].pc = "idle") =>
             Len(batch_hist[a].delivered) = EntriesTaken(a)
        /\ batch_log = batch_hist[a].source

\* the read of the second entry failed in the first adapter, a later call of
\* it returned no entry, and the second adapter has returned both entries of
\* the log
C31_Witness ==
    /\ batch_hist[1].errored
    /\ batch_hist[1].latest = "returned"
    /\ batch_hist[1].after_error
    /\ batch_hist[1].last = Some(Ok(<<>>))
    /\ Len(batch_hist[1].delivered) = 1
    /\ ~batch_hist[2].errored
    /\ ~batch_hist[2].dropped
    /\ adapter[2].inner_iterator # None
    /\ adapter[2].inner_iterator[1].fail_at = 0
    /\ Len(batch_hist[2].delivered) = 2

\* the task of the second adapter failed, and the first adapter has returned
\* both entries of the log
C31_RuntimeExecWitness ==
    /\ batch_hist[2].last = Some(Err("RuntimeExec"))
    /\ adapter[2].inner_iterator = None
    /\ ~batch_hist[1].errored
    /\ ~batch_hist[1].dropped
    /\ Len(batch_hist[1].delivered) = 2

\* the stored keys the iterator of the latest read was asked for
RequestedKeys ==
    LET it == read_log(kv, start_sequence, last_sequence, reader.start, reader.end)
    IN  UNION {KeysInRange(kv[b], it.current_log_key, it.max_log_key) : b \in 1..it.buckets}

\* the values stored under the keys, one after the other in the order of
\* the keys
RECURSIVE ConcatParts(_)
ConcatParts(keys) ==
    IF keys = {} THEN <<>>
    ELSE LET first == FirstKey(keys)[1]
         IN  (CHOOSE r \in AllRecords(kv) : r.key = first).value
               \o ConcatParts(keys \ {first})

\* C32: a read, with no other call at work, ends; what it returned are the
\* stored entries of the requested range of keys, each sequence once, in
\* ascending order, an entry stored in parts with its parts concatenated in
\* the order of the keys.
C32_IteratorYieldsEachOnce ==
    (ReadEnded /\ reader.quiet) =>
        /\ reader.pc = "done"
        /\ \A k \in 1..(Len(reader.out) - 1) :
             reader.out[k].sequence < reader.out[k + 1].sequence
        /\ {reader.out[k].sequence : k \in 1..Len(reader.out)}
             = {key.sequence_num : key \in RequestedKeys}
        /\ \A k \in 1..Len(reader.out) :
             reader.out[k].payload
               = ConcatParts({key \in RequestedKeys :
                                key.sequence_num = reader.out[k].sequence})

\* the same while no stored entry of the requested range is stored in parts
C32_WithoutParts ==
    (\A key \in RequestedKeys : key.num_remaining_bytes = None)
        => C32_IteratorYieldsEachOnce

C32_WithoutPartsWitness ==
    /\ reader.pc = "done"
    /\ reader.quiet
    /\ Len(reader.out) = 2
    /\ Len(kv) = 2
    /\ kv[2] # {}

SameLog(a, b) ==
    /\ a.region_id = b.region_id
    /\ a.table_id = b.table_id
    /\ a.sequence_num = b.sequence_num

\* C33: after a call of collect on a collector whose log is complete (its
\* key has no remaining bytes) the key and the payload are what they were;
\* on a collector whose log is incomplete, a part of the same region, table
\* and sequence is appended to the payload and its key becomes the key,
\* and a part of another log replaces the key and the payload.
C33_CollectorKeepsCompleteLog ==
    (collect_hist # None /\ collect_hist[1].op = "collect"
       /\ collect_hist[1].before.log_key # None) =>
        LET e == collect_hist[1]
            before_key == e.before.log_key[1]
            remaining == before_key.num_remaining_bytes
        IN  IF remaining = None \/ remaining = Some(0)
            THEN collector = e.before
            ELSE IF SameLog(before_key, e.key)
            THEN /\ collector.log_payload = e.before.log_payload \o e.payload
                 /\ collector.log_key = Some(e.key)
            ELSE /\ collector.log_payload = e.payload
                 /\ collector.log_key = Some(e.key)

\* a part of the log of sequence 2 came in while the log of sequence 1 was
\* incomplete with two parts collected
C33_Witness ==
    /\ collect_hist # None
    /\ collect_hist[1].op = "collect"
    /\ collect_hist[1].before.log_key # None
    /\ collect_hist[1].before.log_key[1].sequence_num = 1
    /\ collect_hist[1].before.log_key[1].num_remaining_bytes = Some(2)
    /\ Len(collect_hist[1].before.log_payload) = 3
    /\ collect_hist[1].key.sequence_num = 2
    /\ collector.log_payload = collect_hist[1].payload

C33_CompleteWitness ==
    /\ collect_hist # None
    /\ collect_hist[1].op = "collect"
    /\ collect_hist[1].before.log_key # None
    /\ collect_hist[1].before.log_key[1].num_remaining_bytes = Some(0)
    /\ Len(collect_hist[1].before.log_payload) = 3
    /\ SameLog(collect_hist[1].before.log_key[1], collect_hist[1].key)
    /\ collector = collect_hist[1].before

\* C35: alloc_sequence_num returns SequenceOverflow when last_sequence plus
\* the number asked for passes MAX_SEQUENCE_NUMBER, and last_sequence never
\* decreases and never passes MAX_SEQUENCE_NUMBER.
C35_NoWrapAround ==
    seq_alloc.result # None =>
        /\ seq_alloc.before + seq_alloc.number > MAX_SEQUENCE_NUMBER
             => seq_alloc.result[1] = Err("SequenceOverflow")
        /\ seq_alloc.last_sequence >= seq_alloc.before
        /\ seq_alloc.last_sequence <= MAX_SEQUENCE_NUMBER

\* the same for the calls that ask for one sequence number
C35_OneAtATime ==
    (seq_alloc.result # None /\ seq_alloc.number = 1) => C35_NoWrapAround

C35_OneAtATimeWitness ==
    /\ seq_alloc.result = Some(Err("SequenceOverflow"))
    /\ seq_alloc.number = 1

\* C36: a step of try_transit changes the state of its table only from
\* Stable to Stable, from Stable to Dropping and from Dropping to Dropped,
\* and returns Ok then; for every other pair it returns
\* InvalidTableStateTransition and the state stays; so no table leaves
\* Dropped and no table in Dropping becomes Stable.
C36_TransitStep ==
    \A t \in 1..MaxStateTables :
        /\ table_states'[t] # table_states[t] =>
             <<table_states[t], table_states'[t]>>
                \in {<<"Stable", "Dropping">>, <<"Dropping", "Dropped">>}
        /\ (transit_hist' # None /\ transit_hist'[1].table = t) =>
             LET e == transit_hist'[1]
                 allowed == <<e.from, e.to>> \in {<<"Stable", "Stable">>,
                                                  <<"Stable", "Dropping">>,
                                                  <<"Dropping", "Dropped">>}
             IN  /\ e.from = table_states[t]
                 /\ allowed => (e.result = Ok(<<>>) /\ table_states'[t] = e.to)
                 /\ ~allowed => (e.result = Err("InvalidTableStateTransition")
                                 /\ table_states'[t] = table_states[t])

C36_ValidTransitionsOnly == [][C36_TransitStep]_vars

\* a table that is Dropped was asked to become Stable and stays Dropped,
\* while another table is Dropping
C36_Witness ==
    /\ transit_hist # None
    /\ transit_hist[1].from = "Dropped"
    /\ transit_hist[1].to = "Stable"
    /\ transit_hist[1].result = Err("InvalidTableStateTransition")
    /\ table_states[transit_hist[1].table] = "Dropped"
    /\ \E t \in 1..MaxStateTables : table_states[t] = "Dropping"

\* The keys stored in a table.
StoredKeys(table) == {r.key : r \in table}

\* C34: a step removes a key from the store only if the sequence of the
\* key is below start_sequence, with write_log and delete_entries_up_to
\* going on; and once clean_deleted_logs has returned Ok, no bucket it was
\* given holds a key with a sequence below the start_sequence it read.
C34_CleanStep ==
    /\ \A b \in 1..Len(kv) :
         \A key \in StoredKeys(kv[b]) :
            (b > Len(kv') \/ key \notin StoredKeys(kv'[b])) =>
                /\ key.sequence_num < start_sequence
                /\ key.region_id = Location.region_id
                /\ key.table_id = Location.table_id
    /\ cleaner'.pc = "done" =>
         \A b \in 1..cleaner'.buckets :
            \A r \in kv'[b] : r.key.sequence_num >= cleaner'.start

C34_CleanDeletesBelowStart == [][C34_CleanStep]_vars

\* clean_deleted_logs has returned Ok after write_log had returned three
\* entries, one of the first two stored in two parts: the keys of the first
\* two entries are gone from the store, and the two parts of the entry of
\* the start_sequence it read are still stored
C34_Witness ==
    /\ cleaner.pc = "done"
    /\ cleaner.start = 3
    /\ {a.seq : a \in hist.acked} = {1, 2, 3}
    /\ \E a \in hist.acked : a.seq < 3 /\ a.len > LOG_VALUE_SIZE_LIMIT
    /\ StoredSeqs(kv) = {3}
    /\ Cardinality({r \in AllRecords(kv) : r.key.sequence_num = 3}) = 2

\* A read of the whole range that began on two buckets with one entry each
\* and yielded the first; then both entries were marked deleted and
\* cleaned, and the read ended without the second.
ReadOverCleanWitness ==
    /\ reader.pc = "done"
    /\ ~reader.quiet
    /\ Len(reader.out) = 1
    /\ reader.out[1].sequence = 1
    /\ reader.it.buckets = 2
    /\ kv = << {}, {} >>
    /\ start_sequence = 3

\* C37: no step decreases start_sequence, and after every step
\* start_sequence <= last_sequence + 1; a delete_entries_up_to that returns
\* Ok leaves start_sequence one above the smaller of the requested sequence
\* and last_sequence, or as it was when that is below it.
C37_StartSequenceStep ==
    /\ start_sequence' >= start_sequence
    /\ start_sequence' <= last_sequence' + 1
    /\ (event' # None /\ event'[1].op = "delete_entries_up_to" /\ event'[1].status = "ok") =>
         LET clamped == Min2(event'[1].sequence_num, event'[1].before)
         IN  start_sequence' = IF start_sequence <= clamped THEN clamped + 1
                               ELSE start_sequence

C37_StartSequenceBounded == [][C37_StartSequenceStep]_vars

\* What holds of start_sequence: the same, on the steps that begin with
\* last_sequence below MAX_SEQUENCE_NUMBER and start_sequence at most one
\* above it.
C37_StepBelowTop ==
    (last_sequence < MAX_SEQUENCE_NUMBER /\ start_sequence <= last_sequence + 1)
        => C37_StartSequenceStep

C37_BoundedBelowTop == [][C37_StepBelowTop]_vars

\* C38: when the table unit has been opened, last_sequence is at least the
\* sequence of every stored log, at least every sequence marked deleted, and
\* at least start_sequence - 1.
C38_LastSequenceAfterOpen ==
    (event # None /\ event[1].op = "open" /\ event[1].status = "ok") =>
        /\ \A s \in StoredSeqs(kv) : last_sequence >= s
        /\ \A s \in hist.marked : last_sequence >= s
        /\ last_sequence + 1 >= start_sequence

\* What holds after an open: the same, when no log is stored under
\* MAX_SEQUENCE_NUMBER and the persisted start_sequence is above every
\* sequence marked deleted (it is, unless delete_entries_up_to wrapped it
\* around, see C37).
C38_AfterOpenBelowTop ==
    (/\ event # None /\ event[1].op = "open" /\ event[1].status = "ok"
     /\ MAX_SEQUENCE_NUMBER \notin StoredSeqs(kv)
     /\ \A s \in hist.marked : s < meta[1]) =>
        /\ \A s \in StoredSeqs(kv) : last_sequence >= s
        /\ \A s \in hist.marked : last_sequence >= s
        /\ last_sequence + 1 >= start_sequence

\* The stages some table of the open is in.
StagesInUse == {states[table_id].kind : table_id \in DOMAIN states}

\* C39: no open returns the error of an unexpected table state: once
\* recover_table_metas is through no table is in RecoverTableMeta, the tables
\* the replayer holds are in RecoverTableData, and once recover_table_datas
\* is through no table is in RecoverTableMeta or RecoverTableData.
C39_NoUnexpectedStage ==
    /\ open_result # None =>
         (open_result[1].ok \/ open_result[1].err # "OpenTablesOfShard")
    /\ opener.pc \in {"recover_table_datas", "replay", "results"} =>
         "RecoverTableMeta" \notin StagesInUse
    /\ opener.pc = "replay" =>
         \A table_id \in opener.replay : states[table_id].kind = "RecoverTableData"
    /\ opener.pc = "results" =>
         StagesInUse \subseteq {"Success", "Failed"}

\* an open is through recover_table_datas, with a table that was replayed,
\* one that was in the space already and one that failed
C39_Witness ==
    /\ opener.pc = "results"
    /\ open_hist.replayed # {}
    /\ \E table_id \in request : open_hist.space0[table_id] # None
    /\ "Failed" \in StagesInUse
    /\ "Success" \in StagesInUse

\* an open that returns an error, of the replay as a whole
C39_ErrorWitness ==
    /\ open_result # None
    /\ ~open_result[1].ok

\* The entries of all partitions of a cache, each with its partition.
CachedEntries(c) ==
    {[partition |-> n, at |-> i, entry |-> c.partitions[n].storage[i]] :
        <<n, i>> \in {<<m, j>> \in (1..Len(c.partitions)) \X (1..Cardinality(CacheKeys)) :
                        j <= Len(c.partitions[m].storage)}}

\* C40: every get_range that returns Ok returns the bytes of its range of
\* its object in the underlying store; every entry of the cache holds the
\* bytes of the one object and range whose key it has; no two of the calls
\* made have the same key; and no key has two entries.
C40_CacheIsTransparent ==
    /\ \A a, b \in Requests : cache_key(a[1], a[2]) = cache_key(b[1], b[2]) => a = b
    /\ (cache_event # None /\ cache_event[1].op = "get_range" /\ cache_event[1].result.ok) =>
         cache_event[1].result.v
           = object_bytes(cache_event[1].location, cache_event[1].range)
    /\ cache # None =>
         /\ \A e \in CachedEntries(cache[1]) :
              /\ e.partition = locate_partition(cache[1], hashes, e.entry.key)
              /\ \E asked \in Requests :
                   /\ cache_key(asked[1], asked[2]) = e.entry.key
                   /\ e.entry.value = object_bytes(asked[1], asked[2])
         /\ \A e, f \in CachedEntries(cache[1]) :
              e.entry.key = f.entry.key => e = f

\* two callers missed the same range at the same time: the second of them
\* has returned after the first, and the cache holds the entry once, together
\* with the entry of the other object
C40_Witness ==
    /\ cache # None /\ cache_hist # None
    /\ cache_event # None /\ cache_event[1].op = "get_range"
    /\ ~cache_event[1].hit /\ cache_event[1].result.ok
    /\ Holds(cache_hist[1], cache_event[1].key, cache_event[1].result.v)
    /\ Holds(cache[1], cache_event[1].key, cache_event[1].result.v)
    /\ \E e \in CachedEntries(cache[1]) : e.entry.key = cache_key("1.sst-0", <<5, 10>>)
    /\ cache_event[1].location = "1.sst"

\* a hit on the second object while the first object's range 0..5 is cached
C40_HitWitness ==
    /\ cache # None /\ cache_hist # None
    /\ cache_event # None /\ cache_event[1].op = "get_range"
    /\ cache_event[1].hit
    /\ cache_event[1].location = "1.sst-0"
    /\ \E e \in CachedEntries(cache[1]) : e.entry.key = cache_key("1.sst", <<0, 5>>)
====
